---- MODULE Spec2Model ----
(***************************************************************************)
(* A model of the in-memory LRU+TTL response cache of vellum.forge         *)
(* (internal/cache): the Cache store with its eviction list, the janitor   *)
(* sweep, and the cache-key derivation.                                    *)
(*                                                                         *)
(* Strings are modelled as sequences of one-character strings, so that     *)
(* "" is <<>> and strings.Contains can be computed.  A byte slice or a     *)
(* header block is modelled by its length, the only thing the store reads. *)
(***************************************************************************)
EXTENDS Integers, Sequences, FiniteSets, TLC

\* ------------------------------------------------------------------------
\* Bounds of the model
\* ------------------------------------------------------------------------

\* The wall clock runs from 1 (a time.Time of zero means "unset") to MaxTime.
MaxTime == 2

\* Body lengths of the entries handed to Set range over 0..MaxBody.
MaxBody == 1

\* The fixed overhead SizeBytes adds for the non-body fields.
EntryOverhead == 200

\* The empty string, which is also what removeOldest returns for "no key".
EmptyKey == <<>>

\* The keys the callers use: "", "a" and "/a".
Keys == {EmptyKey, <<"a">>, <<"/", "a">>}

\* The substring patterns handed to Invalidate: "", "a", "/" and "b".
Patterns == {EmptyKey, <<"a">>, <<"/">>, <<"b">>}

\* The file paths handed to InvalidateByFilePath: "a" (relative), "/a".
FilePaths == {<<"a">>, <<"/", "a">>}

\* The working directory of the process, "/".
Cwd == <<"/">>

\* The Config values explored: MaxEntries (negative, zero, positive) and
\* MaxSizeBytes (below one entry's overhead+1, between one and two entries,
\* above everything the model can store).
MaxEntriesChoices == {-1, 0, 1, 2}
MaxSizeChoices == {EntryOverhead, 2 * EntryOverhead + 1, 1024}
Configs == [MaxEntries : MaxEntriesChoices, MaxSizeBytes : MaxSizeChoices,
            DefaultTTL : {1}]

\* GenerateKey is called at most MaxCalls times on the same KeyParams.
MaxCalls == 2

\* The KeyParams explored: methods "G" and "GX", paths "" and "X", file
\* times 0, 7 and -12, and every map from a subset of the flag names "a",
\* "b" to booleans; the other string fields are "" or "z".
FlagNames == {<<"a">>, <<"b">>}
FlagMaps == UNION {[names -> BOOLEAN] : names \in SUBSET FlagNames}
KeyParamsChoices ==
    [Method : {<<"G">>, <<"G", "X">>},
     NormalizedPath : {<<>>, <<"X">>},
     AbsFilePath : {<<>>},
     FileMTimeNs : {0, 7, -12},
     Template : {<<"z">>},
     ThemeID : {<<>>},
     FeatureFlags : FlagMaps,
     AcceptEncoding : {<<>>},
     ContentType : {<<"z">>}]

\* The KeyParams compared pairwise: as above, and also a method and a path
\* that hold the separator character, "G|" and "|".
PairParamsChoices ==
    [Method : {<<"G">>, <<"G", "X">>, <<"G", "|">>},
     NormalizedPath : {<<>>, <<"X">>, <<"|">>},
     AbsFilePath : {<<>>},
     FileMTimeNs : {0, 7},
     Template : {<<"z">>},
     ThemeID : {<<>>},
     FeatureFlags : FlagMaps,
     AcceptEncoding : {<<>>},
     ContentType : {<<"z">>}]

\* Last-Modified and If-Modified-Since times run over 1..MaxStamp, in seconds.
MaxStamp == 3

\* The entries handed to MatchesConditions: ETag "", "a" or "A", and a
\* LastMod that is zero (unset, 0) or a time.
CondEntries == [ETag : {<<>>, <<"a">>, <<"A">>}, LastMod : 0..MaxStamp]

\* The If-None-Match header values: absent, "a", "b", "*", "b, a",
\* "b,<tab>A " and "b,c".
IfNoneMatchChoices ==
    {<<>>, <<"a">>, <<"b">>, <<"*">>, <<"b", ",", " ", "a">>,
     <<"b", ",", "\t", "A", " ">>, <<"b", ",", "c">>}

\* The request path: the site's directories, files, URL paths and templates.
\* Data directory "/d"; one blog post, one static page, one theme template.
MethodGet == <<"G", "E", "T">>
DataDir == <<"/", "d">>
PostFile == <<"/", "d", "/", "b", "l", "o", "g", "/", "p", ".", "m", "d">>
PageFile ==
    <<"/", "d", "/", "p", "a", "g", "e", "s", "/", "s", ".", "m", "d">>
ThemeFile ==
    <<"/", "t", "h", "e", "m", "e", "s", "/", "x", ".", "j", "e", "t">>
\* The theme directory "/themes", and the roots main hands to Watch.
ThemeDir == <<"/", "t", "h", "e", "m", "e", "s">>
WatchedRoots == {DataDir, ThemeDir}
\* A blog post written while the site runs, "/d/blog/n.md".
NewFile == <<"/", "d", "/", "b", "l", "o", "g", "/", "n", ".", "m", "d">>
HomePath == <<"/">>
BlogPath == <<"/", "b", "l", "o", "g">>
PostPath == <<"/", "b", "l", "o", "g", "/", "p">>
PagePath == <<"/", "s">>
HomeTemplate ==
    <<"p", "a", "g", "e", "s", "/", "h", "o", "m", "e", ".", "j", "e", "t">>
IndexTemplate ==
    <<"p", "a", "g", "e", "s", "/", "b", "l", "o", "g", "/", "i", "n", "d",
      "e", "x", ".", "j", "e", "t">>
PostTemplate ==
    <<"p", "a", "g", "e", "s", "/", "b", "l", "o", "g", "/", "p", "o", "s",
      "t", ".", "j", "e", "t">>
PageTemplate ==
    <<"p", "a", "g", "e", "s", "/", "p", "a", "g", "e", ".", "j", "e", "t">>
ThemeID == <<"d">>
TextHtml == <<"t", "e", "x", "t", "/", "h", "t", "m", "l">>

\* The entries handed to Set: a body length, a CreatedAt that is the time the
\* process started at (1), and an ExpiresAt that is either unset (0) or that
\* same time, which passes as soon as the clock advances.
EntryInputs == [Body : 0..MaxBody, Headers : {0}, ContentType : {0}, ETag : {0},
                CreatedAt : {1}, ExpiresAt : {0, 1}]

\* The entries handed to Set to follow its stamping: CreatedAt and ExpiresAt
\* are each unset (0) or the time the process started at (1).
StampEntries == [Body : {0}, Headers : {0}, ContentType : {0}, ETag : {0},
                 CreatedAt : {0, 1}, ExpiresAt : {0, 1}]

VARIABLES
    config,     \* Cache.config
    entries,    \* Cache.entries: key -> entry
    lruList,    \* Cache.lruList: the keys, most recently used first
    totalSize,  \* Cache.totalSize
    now,        \* the wall clock read by time.Now()
    hung,       \* TRUE when a Set is spinning in evictIfNecessary, lock held
    janitor,    \* "running" until Close has stopped the janitor goroutine
    last,       \* history: the last operation, and what it returned
    recency,    \* history: stored keys by last Set / successful Get
    run,        \* history: the keys of an unbroken run of Sets since New
    params,     \* the KeyParams handed to GenerateKey
    keys,       \* the keys GenerateKey has returned, in call order
    other,      \* a second KeyParams, whose key is compared with params'
    cond,       \* a call of Entry.MatchesConditions: entry, request, result
    http,       \* the request a handler is serving, and its response
    fs,         \* the file system: file path -> modification time
    denied,     \* the paths the file system refuses to stat or to list
    watcher,    \* the FileWatcher: its poll loop, stopCh, wg and fileTimes
    closing,    \* the call of Cache.Close, and the sweeps that ran during it
    mu,         \* Cache.mu: the goroutine holding it for writing, the readers
    thr         \* the goroutines calling the store: goroutine -> its position

cacheVars == <<config, entries, lruList, totalSize, now, hung, janitor, last,
               recency, run>>
keyVars == <<params, keys, other>>
condVars == <<cond>>
siteVars == <<http, fs, denied, watcher>>
lifeVars == <<closing>>
lockVars == <<mu, thr>>
auxVars == <<keyVars, condVars, siteVars, lifeVars, lockVars>>
vars == <<cacheVars, auxVars>>

\* ------------------------------------------------------------------------
\* Helpers
\* ------------------------------------------------------------------------

Range(s) == {s[i] : i \in 1..Len(s)}

\* strings.Contains(s, sub)
Contains(s, sub) ==
    \E i \in 0..(Len(s) - Len(sub)) :
        \A j \in 1..Len(sub) : s[i + j] = sub[j]

\* filepath.Abs for clean paths: an absolute path is returned as it is, a
\* relative one is joined to the working directory.
Abs(p) ==
    IF Len(p) > 0 /\ p[1] = "/" THEN p
    ELSE IF p = <<>> THEN Cwd
    ELSE IF Cwd[Len(Cwd)] = "/" THEN Cwd \o p
    ELSE Cwd \o <<"/">> \o p

\* ------------------------------------------------------------------------
\* Entry
\* ------------------------------------------------------------------------

\* Entry.SizeBytes
SizeBytes(e) == e.Body + e.Headers + e.ContentType + e.ETag + EntryOverhead

\* IsExpired with the comparison the wrong way round.
IsExpiredReversed(e, t) == e.ExpiresAt > t

\* Entry.IsExpired, at clock value t
IsExpired(e, t) == t > e.ExpiresAt

\* ------------------------------------------------------------------------
\* lruList: a sequence of keys, head side first, tail side last
\* ------------------------------------------------------------------------

\* lruList.remove
remove(l, key) == SelectSeq(l, LAMBDA x : x # key)

\* lruList.addToFront
addToFront(l, key) == <<key>> \o remove(l, key)

\* lruList.moveToFront
moveToFront(l, key) ==
    IF key \in Range(l) THEN <<key>> \o remove(l, key) ELSE l

\* lruList.removeOldest: the key returned and the list left
removeOldest(l) ==
    IF Len(l) = 0 THEN [key |-> EmptyKey, list |-> l]
    ELSE [key |-> l[Len(l)], list |-> remove(l, l[Len(l)])]

\* ------------------------------------------------------------------------
\* The store under its lock.  The operations below work on a record of the
\* three fields the lock guards (entries, lru, total), of whether the
\* operation is spinning for ever (hung), and of what eviction did: the keys
\* removeOldest unlinked (popped), the keys whose entries were deleted from
\* the map (evicted), and how many of those the count pass deleted (byCount).
\* ------------------------------------------------------------------------

Store(es, l, t) ==
    [entries |-> es, lru |-> l, total |-> t, hung |-> FALSE,
     popped |-> <<>>, evicted |-> <<>>, byCount |-> 0]

\* delete(c.entries, key)
Without(es, key) == [k \in (DOMAIN es) \ {key} |-> es[k]]

\* Cache.removeEntry
removeEntry(s, key) ==
    IF key \in DOMAIN s.entries
    THEN [s EXCEPT !.total = @ - SizeBytes(s.entries[key]),
                   !.entries = Without(@, key),
                   !.lru = remove(@, key)]
    ELSE s

\* if oldest != "" { c.removeEntry(oldest) }
RemoveIfNamed(s, oldest) ==
    IF oldest # EmptyKey
    THEN [removeEntry(s, oldest) EXCEPT
             !.evicted = IF oldest \in DOMAIN s.entries
                         THEN Append(@, oldest) ELSE @]
    ELSE s

\* The body of both loops of evictIfNecessary, entered with a list that holds
\* a key: removeOldest unlinks it, and its entry is removed unless the key
\* returned is "".
EvictOldest(s) ==
    RemoveIfNamed([s EXCEPT !.lru = removeOldest(s.lru).list,
                            !.popped = Append(@, removeOldest(s.lru).key)],
                  removeOldest(s.lru).key)

\* for len(c.entries) > c.config.MaxEntries { ... }
\* On an empty list removeOldest returns "" and the iteration changes
\* nothing: the condition stays true, the loop never exits and the lock is
\* never released.
RECURSIVE EvictByCount(_, _)
EvictByCount(s, cfg) ==
    IF Cardinality(DOMAIN s.entries) > cfg.MaxEntries
    THEN IF Len(s.lru) = 0
         THEN [s EXCEPT !.hung = TRUE]
         ELSE EvictByCount(EvictOldest(s), cfg)
    ELSE s

\* for c.totalSize > c.config.MaxSizeBytes && len(c.entries) > 0 { ... }
RECURSIVE EvictBySize(_, _)
EvictBySize(s, cfg) ==
    IF s.total > cfg.MaxSizeBytes /\ Cardinality(DOMAIN s.entries) > 0
    THEN IF Len(s.lru) = 0
         THEN [s EXCEPT !.hung = TRUE]
         ELSE EvictBySize(EvictOldest(s), cfg)
    ELSE s

\* The size pass, entered when the count pass has ended.
SizePass(c, cfg) ==
    IF c.hung THEN c
    ELSE EvictBySize([c EXCEPT !.byCount = Len(c.evicted)], cfg)

\* evictIfNecessary without its size pass.
evictByCountOnly(s, cfg) == EvictByCount(s, cfg)

\* Cache.evictIfNecessary: the count pass, then the size pass.
evictIfNecessary(s, cfg) == SizePass(EvictByCount(s, cfg), cfg)

\* Set stamps ExpiresAt, and then CreatedAt, when the caller left them zero:
\* time.Now().Add(c.config.DefaultTTL) and time.Now().
Stamp(e, t, cfg) ==
    [e EXCEPT !.ExpiresAt = IF @ = 0 THEN t + cfg.DefaultTTL ELSE @,
              !.CreatedAt = IF @ = 0 THEN t ELSE @]

\* Set adding the new entry's size without subtracting the replaced one's.
InstallAccumulating(s, key, e) ==
    [s EXCEPT !.entries = (key :> e) @@ s.entries,
              !.total = s.total + SizeBytes(e),
              !.lru = addToFront(s.lru, key)]

\* Cache.Set up to and including addToFront: the entry is installed, the
\* eviction has not run yet.
Install(s, key, e) ==
    [s EXCEPT !.entries = (key :> e) @@ s.entries,
              !.total = (IF key \in DOMAIN s.entries
                         THEN s.total - SizeBytes(s.entries[key])
                         ELSE s.total) + SizeBytes(e),
              !.lru = addToFront(IF key \in DOMAIN s.entries
                                 THEN remove(s.lru, key) ELSE s.lru, key)]

\* Delete forgetting to subtract the entry's size from the total.
DeleteEntryKeepsSize(s, key) ==
    [s EXCEPT !.entries = Without(@, key),
              !.lru = remove(@, key)]

\* Delete forgetting to unlink the key from the eviction list.
DeleteEntryKeepsListed(s, key) ==
    [s EXCEPT !.total = @ - SizeBytes(s.entries[key]),
              !.entries = Without(@, key)]

\* The three statements of Cache.Delete for a key that is stored.
DeleteEntry(s, key) ==
    [s EXCEPT !.total = @ - SizeBytes(s.entries[key]),
              !.entries = Without(@, key),
              !.lru = remove(@, key)]

\* Remove the entries of a set of keys, one removeEntry call per key.
RECURSIVE RemoveKeys(_, _)
RemoveKeys(s, ks) ==
    IF ks = {} THEN s
    ELSE RemoveKeys(removeEntry(s, CHOOSE k \in ks : TRUE),
                    ks \ {CHOOSE k \in ks : TRUE})

\* Invalidate matching the pattern at the start of the key only.
InvalidateKeysByPrefix(es, pathPattern) ==
    {k \in DOMAIN es : /\ Len(k) >= Len(pathPattern)
                       /\ SubSeq(k, 1, Len(pathPattern)) = pathPattern}

\* The keys Invalidate collects.
InvalidateKeys(es, pathPattern) ==
    {k \in DOMAIN es : Contains(k, pathPattern)}

\* The keys InvalidateByFilePath collects.
FilePathKeys(es, filePath) ==
    {k \in DOMAIN es : Contains(k, Abs(filePath)) \/ Contains(k, filePath)}

\* cleanup collecting also the entries that expire at this very instant.
ExpiredKeysInclusive(es, t) == {k \in DOMAIN es : t >= es[k].ExpiresAt}

\* The keys cleanup collects.
ExpiredKeys(es, t) == {k \in DOMAIN es : t > es[k].ExpiresAt}

\* ------------------------------------------------------------------------
\* History kept for stating properties
\* ------------------------------------------------------------------------

Keep(seq, ks) == SelectSeq(seq, LAMBDA x : x \in ks)

\* The record of an operation that returned.  ok: Get found the key, Delete
\* returned true, or the key is stored when Set returns.  n: the count
\* returned.  existed: the key was stored at the call.  expired: Get found
\* the entry expired, or Delete removed an entry that had expired.  base, preCount: totalSize and len(entries) at the
\* call (for Delete, base is the totalSize at the Set just before it).
\* size: SizeBytes of the entry set or removed.  oldSize: SizeBytes of the
\* entry Set replaced.  mid: the store between addToFront and
\* evictIfNecessary, with the order the keys were last used in (for cleanup,
\* the eviction list at the call).
Op(name, key) ==
    [op |-> name, key |-> key, ok |-> FALSE, n |-> 0, existed |-> FALSE,
     expired |-> FALSE, base |-> 0, preCount |-> 0, size |-> 0, oldSize |-> 0,
     mid |-> [total |-> 0, count |-> 0, lru |-> <<>>, order |-> <<>>],
     popped |-> <<>>, evC |-> <<>>, evS |-> <<>>,
     afterSet |-> FALSE, setClean |-> FALSE]

RunOff == [on |-> FALSE, keys |-> <<>>]

\* The KeyParams of a process that derives no key.
NoParams ==
    [Method |-> <<>>, NormalizedPath |-> <<>>, AbsFilePath |-> <<>>,
     FileMTimeNs |-> 0, Template |-> <<>>, ThemeID |-> <<>>,
     FeatureFlags |-> << >>, AcceptEncoding |-> <<>>, ContentType |-> <<>>]

\* No call of MatchesConditions.
NoCond == [entry |-> [ETag |-> <<>>, LastMod |-> 0],
           req |-> [IfNoneMatch |-> <<>>, IfModifiedSince |-> <<>>],
           done |-> FALSE, result |-> FALSE]

\* Close has not been called.  call: "none", then "waiting" from
\* close(c.stopCh) on, then "returned"; swept: a sweep ran while it waited.
NotClosing == [call |-> "none", swept |-> FALSE]

\* No request being served.
NoRequest == [phase |-> "idle", req |-> <<>>, key |-> <<>>, resp |-> "none"]

\* A watcher that was never started, with nothing recorded.  handled, first,
\* calls: the files the last poll handled, those it saw for the first time,
\* and the calls it made on the store; raised: the recorded files whose
\* time a modification has raised since, and that no poll has handled.
NoWatcher == [loop |-> "none", stop |-> "none", wg |-> 0, stopCh |-> "open",
              fileTimes |-> << >>, handled |-> {}, first |-> {},
              raised |-> {}, calls |-> <<>>, late |-> FALSE]

\* The goroutines that call the store: a request handler, the file watcher,
\* the janitor, and the handler of the statistics endpoint.
Threads == {"handler", "watcher", "janitor", "stats"}

NoEntry == [Body |-> 0, Headers |-> 0, ContentType |-> 0, ETag |-> 0,
            CreatedAt |-> 0, ExpiresAt |-> 0]

\* A goroutine that is not in a call of the store.  pc: its position; op,
\* key, entry: the call and its arguments; todo: the keys still to be handed
\* to removeEntry; ret: where it goes on after them; ok, n: what the call
\* returns; Entries, SizeBytes: the CacheStats being filled in.
IdleThread ==
    [pc |-> "idle", op |-> "none", key |-> <<>>, entry |-> NoEntry,
     todo |-> <<>>, ret |-> "none", ok |-> FALSE, n |-> 0,
     Entries |-> 0, SizeBytes |-> 0]

\* sync.RWMutex, unlocked.
Unlocked == [writer |-> "none", readers |-> 0]

\* No goroutine is in a call of the store, and the lock is free.
LockIdle == mu = Unlocked /\ thr = [t \in Threads |-> IdleThread]

\* A process that serves no request and watches no file.
SiteIdle ==
    http = NoRequest /\ fs = << >> /\ denied = {} /\ watcher = NoWatcher

\* ------------------------------------------------------------------------
\* Initial state: New(config)
\* ------------------------------------------------------------------------

Init ==
    /\ config \in Configs
    /\ entries = << >>
    /\ lruList = << >>
    /\ totalSize = 0
    /\ now = 1
    /\ hung = FALSE
    /\ janitor = "running"
    /\ last = Op("New", EmptyKey)
    /\ recency = << >>
    /\ run = [on |-> TRUE, keys |-> <<>>]
    /\ params = NoParams
    /\ other = NoParams
    /\ keys = << >>
    /\ cond = NoCond
    /\ SiteIdle
    /\ closing = NotClosing
    /\ LockIdle

Cur == Store(entries, lruList, totalSize)

\* ------------------------------------------------------------------------
\* Operations.  Each takes the lock, so none is enabled while a Set spins.
\* ------------------------------------------------------------------------

\* Cache.Set.  Entry.AccessedAt and AccessCount (Touch) are written by Set
\* and Get but read by no store operation; they are not state here.
CacheSet(key, entry) ==
    /\ ~hung
    /\ \E e \in {Stamp(entry, now, config)} :
       \E m \in {Install(Cur, key, e)} :
       \E z \in {evictIfNecessary(m, config)} :
           /\ entries' = z.entries
           /\ lruList' = z.lru
           /\ totalSize' = z.total
           /\ hung' = z.hung
           /\ recency' = Keep(addToFront(recency, key), DOMAIN z.entries)
           /\ IF z.hung
              THEN /\ last' = Op("Set never returns", key)
                   /\ run' = RunOff
              ELSE /\ last' = [Op("Set", key) EXCEPT
                          !.ok = key \in DOMAIN z.entries,
                          !.existed = key \in DOMAIN entries,
                          !.base = totalSize,
                          !.preCount = Cardinality(DOMAIN entries),
                          !.size = SizeBytes(e),
                          !.oldSize = IF key \in DOMAIN entries
                                      THEN SizeBytes(entries[key]) ELSE 0,
                          !.mid = [total |-> m.total,
                                   count |-> Cardinality(DOMAIN m.entries),
                                   lru |-> m.lru,
                                   order |-> addToFront(recency, key)],
                          !.popped = z.popped,
                          !.evC = SubSeq(z.evicted, 1, z.byCount),
                          !.evS = SubSeq(z.evicted, z.byCount + 1,
                                         Len(z.evicted))]
                   /\ run' = IF run.on /\ key \notin Range(run.keys)
                             THEN [run EXCEPT !.keys = Append(@, key)]
                             ELSE RunOff
    /\ UNCHANGED <<config, now, janitor>>

\* A call of Cache.Set by a caller of the store.
Set(key, entry) == CacheSet(key, entry) /\ UNCHANGED auxVars

\* Cache.Get
CacheGet(key) ==
    /\ ~hung
    /\ IF key \notin DOMAIN entries
       THEN /\ last' = Op("Get", key)
            /\ UNCHANGED <<entries, lruList, totalSize, recency>>
       ELSE IF IsExpired(entries[key], now)
       THEN \E z \in {removeEntry(Cur, key)} :
                /\ entries' = z.entries
                /\ lruList' = z.lru
                /\ totalSize' = z.total
                /\ recency' = Keep(recency, DOMAIN z.entries)
                /\ last' = [Op("Get", key) EXCEPT
                               !.existed = TRUE,
                               !.expired = TRUE,
                               !.base = totalSize,
                               !.size = SizeBytes(entries[key])]
       ELSE /\ lruList' = moveToFront(lruList, key)
            /\ recency' = addToFront(recency, key)
            /\ last' = [Op("Get", key) EXCEPT !.ok = TRUE, !.existed = TRUE]
            /\ UNCHANGED <<entries, totalSize>>
    /\ run' = RunOff
    /\ UNCHANGED <<config, now, hung, janitor>>

\* A call of Cache.Get by a caller of the store.
Get(key) == CacheGet(key) /\ UNCHANGED auxVars

\* Cache.Delete
Delete(key) ==
    /\ ~hung
    /\ IF key \in DOMAIN entries
       THEN \E z \in {DeleteEntry(Cur, key)} :
                /\ entries' = z.entries
                /\ lruList' = z.lru
                /\ totalSize' = z.total
       ELSE UNCHANGED <<entries, lruList, totalSize>>
    /\ recency' = Keep(recency, DOMAIN entries')
    /\ last' = [Op("Delete", key) EXCEPT
                   !.ok = key \in DOMAIN entries,
                   !.existed = key \in DOMAIN entries,
                   !.expired = /\ key \in DOMAIN entries
                               /\ IsExpired(entries[key], now),
                   !.size = IF key \in DOMAIN entries
                            THEN SizeBytes(entries[key]) ELSE 0,
                   !.afterSet = last.op = "Set" /\ last.key = key,
                   !.setClean = /\ last.op = "Set" /\ last.key = key
                                /\ ~last.existed
                                /\ last.evC = <<>> /\ last.evS = <<>>,
                   !.base = IF last.op = "Set" /\ last.key = key
                            THEN last.base ELSE 0]
    /\ run' = RunOff
    /\ UNCHANGED <<config, now, hung, janitor, auxVars>>

\* Cache.Invalidate
Invalidate(pathPattern) ==
    /\ ~hung
    /\ \E ks \in {InvalidateKeys(entries, pathPattern)} :
       \E z \in {RemoveKeys(Cur, ks)} :
           /\ entries' = z.entries
           /\ lruList' = z.lru
           /\ totalSize' = z.total
           /\ recency' = Keep(recency, DOMAIN z.entries)
           /\ last' = [Op("Invalidate", pathPattern) EXCEPT
                          !.n = Cardinality(ks)]
    /\ run' = RunOff
    /\ UNCHANGED <<config, now, hung, janitor, auxVars>>

\* Cache.InvalidateByFilePath
InvalidateByFilePath(filePath) ==
    /\ ~hung
    /\ \E ks \in {FilePathKeys(entries, filePath)} :
       \E z \in {RemoveKeys(Cur, ks)} :
           /\ entries' = z.entries
           /\ lruList' = z.lru
           /\ totalSize' = z.total
           /\ recency' = Keep(recency, DOMAIN z.entries)
           /\ last' = [Op("InvalidateByFilePath", filePath) EXCEPT
                          !.n = Cardinality(ks)]
    /\ run' = RunOff
    /\ UNCHANGED <<config, now, hung, janitor, auxVars>>

\* Cache.Clear
Clear ==
    /\ ~hung
    /\ entries' = << >>
    /\ lruList' = << >>
    /\ totalSize' = 0
    /\ recency' = << >>
    /\ last' = Op("Clear", EmptyKey)
    /\ run' = RunOff
    /\ UNCHANGED <<config, now, hung, janitor, auxVars>>

\* Cache.cleanup
CacheCleanup ==
    /\ ~hung
    /\ \E ks \in {ExpiredKeys(entries, now)} :
       \E z \in {RemoveKeys(Cur, ks)} :
           /\ entries' = z.entries
           /\ lruList' = z.lru
           /\ totalSize' = z.total
           /\ recency' = Keep(recency, DOMAIN z.entries)
           /\ last' = [Op("cleanup", EmptyKey) EXCEPT
                          !.n = Cardinality(ks),
                          !.preCount = Cardinality(DOMAIN entries),
                          !.mid = [@ EXCEPT !.lru = lruList]]
    /\ run' = RunOff
    /\ UNCHANGED <<config, now, hung>>

\* Cache.janitor receiving a tick of its ticker: Cache.cleanup
Cleanup ==
    /\ janitor = "running"
    /\ CacheCleanup
    /\ UNCHANGED <<janitor, auxVars>>

\* Cache.Close: the janitor receives from stopCh and returns.
Close ==
    /\ janitor = "running"
    /\ janitor' = "stopped"
    /\ closing' = [closing EXCEPT !.call = "returned"]
    /\ UNCHANGED <<config, entries, lruList, totalSize, now, hung, last,
                   recency, run, keyVars, condVars, siteVars, lockVars>>

\* The wall clock advances; what the last operation returned is from then on
\* a result of the past.
Tick ==
    /\ now < MaxTime
    /\ now' = now + 1
    /\ last' = Op("Tick", EmptyKey)
    /\ UNCHANGED <<config, entries, lruList, totalSize, hung, janitor,
                   recency, run, auxVars>>

Next ==
    \/ \E key \in Keys, entry \in EntryInputs : Set(key, entry)
    \/ \E key \in Keys : Get(key)
    \/ \E key \in Keys : Delete(key)
    \/ \E pathPattern \in Patterns : Invalidate(pathPattern)
    \/ \E filePath \in FilePaths : InvalidateByFilePath(filePath)
    \/ Clear
    \/ Cleanup
    \/ Close
    \/ Tick

Spec == Init /\ [][Next]_vars

\* The store whose Sets are followed for what they stamp on the entry.
StampConfigs == {c \in Configs : c.MaxEntries = 2 /\ c.MaxSizeBytes = 1024}

StampInit ==
    /\ config \in StampConfigs
    /\ entries = << >>
    /\ lruList = << >>
    /\ totalSize = 0
    /\ now = 1
    /\ hung = FALSE
    /\ janitor = "running"
    /\ last = Op("New", EmptyKey)
    /\ recency = << >>
    /\ run = RunOff
    /\ params = NoParams /\ other = NoParams /\ keys = << >>
    /\ cond = NoCond
    /\ SiteIdle
    /\ closing = NotClosing
    /\ LockIdle

StampNext ==
    \/ \E key \in Keys, entry \in StampEntries : Set(key, entry)
    \/ \E key \in Keys : Get(key)
    \/ Tick

StampSpec == StampInit /\ [][StampNext]_vars

\* ------------------------------------------------------------------------
\* Key derivation
\* ------------------------------------------------------------------------

Digit(d) ==
    CASE d = 0 -> "0" [] d = 1 -> "1" [] d = 2 -> "2" [] d = 3 -> "3"
      [] d = 4 -> "4" [] d = 5 -> "5" [] d = 6 -> "6" [] d = 7 -> "7"
      [] d = 8 -> "8" [] d = 9 -> "9"

RECURSIVE Digits(_)
Digits(n) == IF n < 10 THEN <<Digit(n)>>
             ELSE Digits(n \div 10) \o <<Digit(n % 10)>>

\* strconv.FormatInt(n, 10)
FormatInt(n) == IF n < 0 THEN <<"-">> \o Digits(-n) ELSE Digits(n)

\* fmt.Sprintf("%s:%t", k, v)
FlagString(k, v) ==
    k \o <<":">> \o (IF v THEN <<"t", "r", "u", "e">>
                     ELSE <<"f", "a", "l", "s", "e">>)

\* The orders in which a range over a map with these keys can visit them:
\* Go fixes none, and two loops over the same map may differ.
IterationOrders(names) ==
    {o \in [1..Cardinality(names) -> names] : Range(o) = names}

\* The flags slice written to the hash, each flag followed by ",".
RECURSIVE WriteFlags(_, _, _)
WriteFlags(flags, order, i) ==
    IF i > Len(order) THEN <<>>
    ELSE FlagString(order[i], flags[order[i]]) \o <<",">>
         \o WriteFlags(flags, order, i + 1)

\* The bytes GenerateKey writes to the hash, when the range over the
\* FeatureFlags map visits the names in the given order.
HashInput(p, order) ==
    p.Method \o <<"|">> \o p.NormalizedPath \o <<"|">> \o p.AbsFilePath
    \o <<"|">> \o FormatInt(p.FileMTimeNs) \o <<"|">> \o p.Template
    \o <<"|">> \o p.ThemeID \o <<"|">>
    \o WriteFlags(p.FeatureFlags, order, 1)
    \o <<"|">> \o p.AcceptEncoding \o <<"|">> \o p.ContentType

\* The characters of the model's strings, in the order of their byte values.
Chars ==
    <<" ", "*", ",", "-", ".", "/", "0", "1", "2", "3", "4", "5",
      "6", "7", "8", "9", ":", ";", "A", "B", "E", "G", "T", "X",
      "_", "a", "b", "c", "d", "e", "f", "g", "h", "i", "j", "k",
      "l", "m", "n", "o", "p", "q", "r", "s", "t", "u", "v", "w",
      "x", "y", "z", "|">>

HexDigit(d) ==
    CASE d < 10 -> Digit(d)
      [] d = 10 -> "a" [] d = 11 -> "b" [] d = 12 -> "c"
      [] d = 13 -> "d" [] d = 14 -> "e" [] d = 15 -> "f"

\* %x of one byte: two hexadecimal digits.
HexByte(c) ==
    LET b == CHOOSE i \in 1..Len(Chars) : Chars[i] = c
    IN  <<HexDigit(b \div 16), HexDigit(b % 16)>>

RECURSIVE Hex(_)
Hex(bytes) ==
    IF bytes = <<>> THEN <<>> ELSE HexByte(Head(bytes)) \o Hex(Tail(bytes))

\* fmt.Sprintf("%x", h.Sum(nil)): SHA-256 is taken to be free of collisions.
\* A digest is modelled by the hexadecimal text of the very bytes that were
\* hashed: like the digest it is a string over 0-9a-f that is fixed by those
\* bytes, and unlike it, it is of no fixed length.
Sha256Hex(bytes) == Hex(bytes)

\* GenerateKey
GenerateKey(p, order) == Sha256Hex(HashInput(p, order))

\* The store of a process that only derives keys: new, and never used.
StoreIdle ==
    /\ config \in {c \in Configs : c.MaxEntries = 0 /\ c.MaxSizeBytes = 1024}
    /\ entries = << >>
    /\ lruList = << >>
    /\ totalSize = 0
    /\ now = 1
    /\ hung = FALSE
    /\ janitor = "running"
    /\ last = Op("New", EmptyKey)
    /\ recency = << >>
    /\ run = RunOff

KeyInit ==
    /\ StoreIdle
    /\ params \in KeyParamsChoices
    /\ keys = << >>
    /\ other = NoParams
    /\ cond = NoCond
    /\ SiteIdle
    /\ closing = NotClosing
    /\ LockIdle

\* A call of GenerateKey on params.
GenerateKeyCall ==
    /\ Len(keys) < MaxCalls
    /\ \E order \in IterationOrders(DOMAIN params.FeatureFlags) :
          keys' = Append(keys, GenerateKey(params, order))
    /\ UNCHANGED <<params, other, cacheVars, condVars, siteVars, lifeVars,
                   lockVars>>

KeyNext == GenerateKeyCall

KeySpec == KeyInit /\ [][KeyNext]_vars

\* Two KeyParams, each handed to GenerateKey once.
PairInit ==
    /\ StoreIdle
    /\ params \in PairParamsChoices
    /\ other \in PairParamsChoices
    /\ keys = << >>
    /\ cond = NoCond
    /\ SiteIdle
    /\ closing = NotClosing
    /\ LockIdle

GenerateKeyPair ==
    /\ other # NoParams
    /\ keys = << >>
    /\ \E o1 \in IterationOrders(DOMAIN params.FeatureFlags) :
       \E o2 \in IterationOrders(DOMAIN other.FeatureFlags) :
          keys' = <<GenerateKey(params, o1), GenerateKey(other, o2)>>
    /\ UNCHANGED <<params, other, cacheVars, condVars, siteVars, lifeVars,
                   lockVars>>

PairNext == GenerateKeyPair

PairSpec == PairInit /\ [][PairNext]_vars

\* ------------------------------------------------------------------------
\* Conditional requests
\* ------------------------------------------------------------------------

\* The characters strings.TrimSpace strips (of those the model uses).
Spaces == {" ", "\t"}

\* strings.Split(s, ",")
RECURSIVE Split(_)
Split(s) ==
    IF \A i \in 1..Len(s) : s[i] # "," THEN <<s>>
    ELSE LET c == CHOOSE i \in 1..Len(s) :
                      s[i] = "," /\ \A j \in 1..(i - 1) : s[j] # ","
         IN  <<SubSeq(s, 1, c - 1)>> \o Split(SubSeq(s, c + 1, Len(s)))

\* strings.TrimSpace(s)
RECURSIVE TrimSpace(_)
TrimSpace(s) ==
    IF s = <<>> THEN s
    ELSE IF s[1] \in Spaces THEN TrimSpace(Tail(s))
    ELSE IF s[Len(s)] \in Spaces THEN TrimSpace(SubSeq(s, 1, Len(s) - 1))
    ELSE s

\* http.ParseTime: the header texts "1".."9" stand for the HTTP-dates of
\* those seconds; every other text fails to parse.
ParseTime(text) ==
    IF Len(text) = 1 /\ \E t \in 1..9 : text = <<Digit(t)>>
    THEN [ok |-> TRUE, time |-> CHOOSE t \in 1..9 : text = <<Digit(t)>>]
    ELSE [ok |-> FALSE, time |-> 0]

\* The If-Modified-Since header values: absent, unparseable, and a time.
IfModifiedSinceChoices ==
    {<<>>, <<"x">>} \cup {<<Digit(t)>> : t \in 1..MaxStamp}

CondRequests == [IfNoneMatch : IfNoneMatchChoices,
                 IfModifiedSince : IfModifiedSinceChoices]

\* The loop over the listed ETags: one is "*" or the entry's ETag.
ETagListed(inm, etag) ==
    \E i \in 1..Len(Split(inm)) :
        TrimSpace(Split(inm)[i]) \in {<<"*">>, etag}

NotModifiedSinceStrict(lastMod, since) == lastMod < since

\* !e.LastMod.After(since)
NotModifiedSince(lastMod, since) == ~(lastMod > since)

\* MatchesConditions taking an If-Modified-Since it cannot parse for a match.
MatchesConditionsLenient(e, r) ==
    IF r.IfNoneMatch # <<>> /\ e.ETag # <<>>
       /\ ETagListed(r.IfNoneMatch, e.ETag)
    THEN TRUE
    ELSE IF r.IfModifiedSince # <<>> /\ e.LastMod # 0
    THEN \/ ~ParseTime(r.IfModifiedSince).ok
         \/ NotModifiedSince(e.LastMod, ParseTime(r.IfModifiedSince).time)
    ELSE FALSE

\* Entry.MatchesConditions
MatchesConditions(e, r) ==
    IF r.IfNoneMatch # <<>> /\ e.ETag # <<>>
       /\ ETagListed(r.IfNoneMatch, e.ETag)
    THEN TRUE
    ELSE IF r.IfModifiedSince # <<>> /\ e.LastMod # 0
            /\ ParseTime(r.IfModifiedSince).ok
    THEN NotModifiedSince(e.LastMod, ParseTime(r.IfModifiedSince).time)
    ELSE FALSE

CondInit ==
    /\ StoreIdle
    /\ params = NoParams /\ other = NoParams /\ keys = << >>
    /\ \E e \in CondEntries : \E r \in CondRequests :
          cond = [entry |-> e, req |-> r, done |-> FALSE, result |-> FALSE]
    /\ SiteIdle
    /\ closing = NotClosing
    /\ LockIdle

MatchesConditionsCall ==
    /\ ~cond.done
    /\ cond' = [cond EXCEPT !.done = TRUE,
                            !.result = MatchesConditions(cond.entry, cond.req)]
    /\ UNCHANGED <<cacheVars, keyVars, siteVars, lifeVars, lockVars>>

CondNext == MatchesConditionsCall

CondSpec == CondInit /\ [][CondNext]_vars

\* Entry.SupportsConditionalRequests
SupportsConditionalRequests(e) == e.ETag # <<>> \/ e.LastMod # 0

\* What a request handler has written to the ResponseWriter.  status: the
\* code handed to WriteHeader, 0 while none was; headers: the names of the
\* headers set; body: the bodies written, in order.
NothingWritten == [status |-> 0, headers |-> {}, body |-> <<>>]

\* HandleConditionalRequest declaring no match whatever the request says.
HandleConditionalRequestNever(e, r) == [sent |-> FALSE, w |-> NothingWritten]

\* HandleConditionalRequest: sent is what it returns, w what it has written.
HandleConditionalRequest(e, r) ==
    IF ~SupportsConditionalRequests(e)
    THEN [sent |-> FALSE, w |-> NothingWritten]
    ELSE IF MatchesConditions(e, r)
    THEN [sent |-> TRUE,
          w |-> [status |-> 304,
                 headers |-> (IF e.ETag # <<>> THEN {"ETag"} ELSE {})
                             \cup (IF e.LastMod # 0 THEN {"Last-Modified"}
                                   ELSE {}),
                 body |-> <<>>]]
    ELSE [sent |-> FALSE, w |-> NothingWritten]

\* A call of HandleConditionalRequest on the entry and the request chosen.
HandleConditionalRequestCall ==
    /\ ~cond.done
    /\ cond' = [cond EXCEPT
                    !.done = TRUE,
                    !.result = HandleConditionalRequest(cond.entry, cond.req)]
    /\ UNCHANGED <<cacheVars, keyVars, siteVars, lifeVars, lockVars>>

HandleNext == HandleConditionalRequestCall

HandleSpec == CondInit /\ [][HandleNext]_vars

\* ------------------------------------------------------------------------
\* The request path: key building and renderWithCache
\* ------------------------------------------------------------------------

HasPrefix(str, prefix) ==
    Len(str) >= Len(prefix) /\ SubSeq(str, 1, Len(prefix)) = prefix

HasSuffix(str, suffix) ==
    /\ Len(str) >= Len(suffix)
    /\ SubSeq(str, Len(str) - Len(suffix) + 1, Len(str)) = suffix

\* strings.ToLower, for the capitals of Chars.
ToLower(str) ==
    [i \in 1..Len(str) |->
        CASE str[i] = "A" -> "a" [] str[i] = "B" -> "b" [] str[i] = "E" -> "e"
          [] str[i] = "G" -> "g" [] str[i] = "T" -> "t" [] str[i] = "X" -> "x"
          [] OTHER -> str[i]]

\* strings.TrimRight(str, "/")
RECURSIVE TrimRightSlash(_)
TrimRightSlash(str) ==
    IF str # <<>> /\ str[Len(str)] = "/"
    THEN TrimRightSlash(SubSeq(str, 1, Len(str) - 1))
    ELSE str

\* strings.Join(strs, ";")
RECURSIVE Join(_)
Join(strs) ==
    IF strs = <<>> THEN <<>>
    ELSE IF Len(strs) = 1 THEN strs[1]
    ELSE strs[1] \o <<";">> \o Join(Tail(strs))

\* The loop of BuildKey over filePaths: the greatest modification time of
\* the files that can be stat'ed, 0 when there is none.
RECURSIVE MaxMTime(_, _, _)
MaxMTime(filePaths, files, maxMTime) ==
    IF filePaths = <<>> THEN maxMTime
    ELSE MaxMTime(Tail(filePaths), files,
                  IF Abs(Head(filePaths)) \in DOMAIN files
                     /\ files[Abs(Head(filePaths))] > maxMTime
                  THEN files[Abs(Head(filePaths))] ELSE maxMTime)

\* CacheKeyBuilder.BuildKey, for a GET request of the given URL path.
BuildKey(urlPath, template, filePaths, files, mermaid, acceptEncoding) ==
    LET normalizedPath ==
            IF ToLower(TrimRightSlash(urlPath)) = <<>> THEN <<"/">>
            ELSE ToLower(TrimRightSlash(urlPath))
        featureFlags ==
            IF mermaid THEN (<<"m", "e", "r", "m", "a", "i", "d">> :> TRUE)
            ELSE << >>
        p == [Method |-> MethodGet,
              NormalizedPath |-> normalizedPath,
              AbsFilePath |-> Join([i \in 1..Len(filePaths) |->
                                       Abs(filePaths[i])]),
              FileMTimeNs |-> MaxMTime(filePaths, files, 0),
              Template |-> template,
              ThemeID |-> ThemeID,
              FeatureFlags |-> featureFlags,
              AcceptEncoding |-> acceptEncoding,
              ContentType |-> TextHtml]
    IN  GenerateKey(p, CHOOSE o \in IterationOrders(DOMAIN featureFlags) : TRUE)

\* The markdown files the walk of <dataDir>/blog finds.
BlogFiles(files) ==
    LET found == {f \in DOMAIN files :
                     /\ HasPrefix(f, DataDir \o <<"/", "b", "l", "o", "g", "/">>)
                     /\ HasSuffix(ToLower(f), <<".", "m", "d">>)}
    IN  IF found = {} THEN <<>> ELSE <<CHOOSE f \in found : TRUE>>

\* BuildKeyForHome, BuildKeyForBlogIndex, BuildKeyForBlogPost and
\* BuildKeyForPage, for the post "p" and the page "s"; "" when the file of
\* the post or page is not found.
BuildKeyFor(page, files) ==
    CASE page = "home" ->
           BuildKey(HomePath, HomeTemplate, BlogFiles(files), files, FALSE, <<>>)
      [] page = "index" ->
           BuildKey(BlogPath, IndexTemplate, BlogFiles(files), files, FALSE,
                    <<>>)
      [] page = "post" ->
           IF PostFile \in DOMAIN files
           THEN BuildKey(PostPath, PostTemplate, <<PostFile>>, files, FALSE,
                         <<>>)
           ELSE <<>>
      [] page = "page" ->
           IF PageFile \in DOMAIN files
           THEN BuildKey(PagePath, PageTemplate, <<PageFile>>, files, FALSE,
                         <<>>)
           ELSE <<>>

\* The requests served: of the home page or of the static page, with the
\* query parameter nocache absent, "0" or "1" and the header X-Bypass-Cache
\* absent or "1" (url.Values.Get and Header.Get read the first value).
ServeRequests ==
    [page : {"home", "page"}, nocache : {<<>>, <<"0">>, <<"1">>},
     bypassHeader : {<<>>, <<"1">>}]

\* What a render produces: status 200, another status, or an error.
RenderOutcomes == {"ok", "status", "error"}

\* The status code the ResponseCapture holds after the render: 200 unless
\* the render wrote another one, here 404.
CapturedStatus(outcome) == IF outcome = "status" THEN 404 ELSE 200

\* The Configs of the serving process: room for one or two entries, by
\* count and by size.
ServeConfigs ==
    {c \in Configs : c.MaxEntries \in {1, 2} /\ c.MaxSizeBytes > EntryOverhead}

\* The files of the site and their modification times.
SiteFiles == (PostFile :> 1) @@ (PageFile :> 1) @@ (ThemeFile :> 1)

\* len(`"%x"`) of an MD5 sum: GenerateETag.
ETagLen == 34

\* len("Content-Type") and len("text/html; charset=utf-8"): the header the
\* renderer sets.
ContentTypeNameLen == 12
ContentTypeLen == 24

ShouldBypassQueryOnly(r) == r.nocache = <<"1">>

\* ShouldBypass
ShouldBypass(r) == r.nocache = <<"1">> \/ r.bypassHeader = <<"1">>

\* The handlers home and page up to their call of renderWithCache: the cache
\* key, "" when the request bypasses the cache or no key can be built.
RouteKey(r, files) ==
    IF ~ShouldBypass(r) THEN BuildKeyFor(r.page, files) ELSE <<>>

\* CreateCacheEntry followed by SetCacheHeaders, which fill in ExpiresAt,
\* the ETag of the body and LastMod.
CreateCacheEntry(body, statusCode, t, ttl) ==
    [Body |-> body, Headers |-> ContentTypeNameLen + ContentTypeLen,
     ContentType |-> ContentTypeLen, ETag |-> ETagLen, CreatedAt |-> t,
     ExpiresAt |-> t + ttl, StatusCode |-> statusCode, LastMod |-> t]

\* renderWithCache storing whatever status the render produced.
CacheableAnyStatus(statusCode) == TRUE

\* if statusCode == http.StatusOK
Cacheable(statusCode) == statusCode = 200

\* A handler receives a request: it renders at once when the request
\* bypasses the cache or has no key, and otherwise calls renderWithCache,
\* which looks the key up and, on a miss, starts to render.  A hit is served
\* from the entry, as 200 or as 304.
ServeRequest(r) ==
    /\ http.phase = "idle"
    /\ \E key \in {RouteKey(r, fs)} :
          IF key = <<>> \/ ShouldBypass(r)
          THEN /\ http' = [phase |-> "idle", req |-> r, key |-> key,
                           resp |-> "fresh"]
               /\ UNCHANGED cacheVars
          ELSE /\ CacheGet(key)
               /\ http' = IF last'.ok
                          THEN [phase |-> "idle", req |-> r, key |-> key,
                                resp |-> "hit"]
                          ELSE [phase |-> "rendering", req |-> r, key |-> key,
                                resp |-> "none"]
    /\ UNCHANGED <<keyVars, condVars, fs, denied, watcher, lifeVars, lockVars>>

\* renderWithCache after the render: a 200 response is stored and flushed,
\* another status is flushed only ("status"), an error is returned.
ServeStore(outcome, body) ==
    /\ http.phase = "rendering"
    /\ IF outcome # "error" /\ Cacheable(CapturedStatus(outcome))
       THEN /\ CacheSet(http.key,
                        CreateCacheEntry(body, CapturedStatus(outcome), now,
                                         config.DefaultTTL))
            /\ http' = [http EXCEPT
                            !.phase = IF hung' THEN "stuck" ELSE "idle",
                            !.resp = IF hung' THEN "none"
                                     ELSE IF outcome = "ok" THEN "fresh"
                                     ELSE "status"]
       ELSE /\ UNCHANGED cacheVars
            /\ http' = [http EXCEPT
                            !.phase = "idle",
                            !.resp = IF outcome = "error" THEN "error"
                                     ELSE "status"]
    /\ UNCHANGED <<keyVars, condVars, fs, denied, watcher, lifeVars, lockVars>>

ServeInit ==
    /\ config \in ServeConfigs
    /\ entries = << >>
    /\ lruList = << >>
    /\ totalSize = 0
    /\ now = 1
    /\ hung = FALSE
    /\ janitor = "running"
    /\ last = Op("New", EmptyKey)
    /\ recency = << >>
    /\ run = RunOff
    /\ params = NoParams /\ other = NoParams /\ keys = << >>
    /\ cond = NoCond
    /\ http = NoRequest
    /\ fs = SiteFiles
    /\ denied = {}
    /\ watcher = NoWatcher
    /\ closing = NotClosing
    /\ LockIdle

ServeNext ==
    \/ \E r \in ServeRequests : ServeRequest(r)
    \/ \E outcome \in RenderOutcomes, body \in 0..MaxBody :
          ServeStore(outcome, body)
    \/ Cleanup
    \/ Tick

ServeSpec == ServeInit /\ [][ServeNext]_vars

\* The bytes of a body of the given length.
BodyBytes(body) == [i \in 1..body |-> "x"]

\* GenerateETag: the MD5 sum in hexadecimal, inside double quotes.  MD5 is
\* modelled like SHA-256 above, by the hexadecimal text of the bytes hashed.
GenerateETag(body) == <<"\"">> \o Hex(BodyBytes(body)) \o <<"\"">>

\* The ETag and LastMod of a stored entry, as MatchesConditions reads them.
\* The store keeps the length of the ETag; the request path sets no other
\* ETag than that of the body.
Validators(e) ==
    [ETag |-> IF e.ETag = 0 THEN <<>> ELSE GenerateETag(e.Body),
     LastMod |-> e.LastMod]

\* SetCacheHeaders: the entry as it leaves it, and the response headers set.
SetCacheHeaders(e) ==
    [entry |-> [e EXCEPT !.ETag = IF @ = 0 THEN ETagLen ELSE @,
                         !.LastMod = IF @ = 0 THEN e.CreatedAt ELSE @],
     headers |-> {"ETag", "Last-Modified", "Cache-Control", "Vary"}]

\* WriteEntryToResponse after the headers already set: the entry's headers,
\* its status code and its body.
WriteEntryToResponse(headers, e) ==
    [status |-> e.StatusCode,
     headers |-> headers \cup {"Content-Type"},
     body |-> <<e.Body>>]

\* The requests with validators: of the static page, If-None-Match absent
\* or the ETag of a body, If-Modified-Since absent, unparseable or the time
\* the process started at.
HitRequests ==
    [page : {"page"},
     IfNoneMatch : {<<>>} \cup {GenerateETag(b) : b \in 0..MaxBody},
     IfModifiedSince : {<<>>, <<"x">>, <<Digit(1)>>}]

\* renderWithCache for a request that does not bypass the cache.  On a hit
\* (Get moves the key to the front) HandleConditionalRequest answers 304,
\* or SetCacheHeaders, which writes through the pointer Get returned, and
\* WriteEntryToResponse answer from the entry; on a miss the render starts.
ServeConditional(r) ==
    /\ http.phase = "idle"
    /\ ~hung
    /\ \E key \in {BuildKeyFor(r.page, fs)} :
          /\ key # <<>>
          /\ IF key \in DOMAIN entries /\ ~IsExpired(entries[key], now)
             THEN \E h \in {HandleConditionalRequest(Validators(entries[key]),
                                                     r)} :
                  \E c \in {SetCacheHeaders(entries[key])} :
                      /\ lruList' = moveToFront(lruList, key)
                      /\ recency' = addToFront(recency, key)
                      /\ last' = [Op("Get", key) EXCEPT !.ok = TRUE,
                                                        !.existed = TRUE]
                      /\ run' = RunOff
                      /\ entries' = IF h.sent THEN entries
                                    ELSE [entries EXCEPT ![key] = c.entry]
                      /\ http' = [phase |-> "idle", req |-> r, key |-> key,
                                  resp |-> IF h.sent THEN "not modified"
                                           ELSE "cached",
                                  w |-> IF h.sent THEN h.w
                                        ELSE WriteEntryToResponse(c.headers,
                                                                  c.entry)]
                      /\ UNCHANGED <<config, now, hung, janitor, totalSize>>
             ELSE /\ CacheGet(key)
                  /\ http' = [phase |-> "rendering", req |-> r, key |-> key,
                              resp |-> "none", w |-> NothingWritten]
    /\ UNCHANGED <<keyVars, condVars, fs, denied, watcher, lifeVars, lockVars>>

HitNext ==
    \/ \E r \in HitRequests : ServeConditional(r)
    \/ \E outcome \in RenderOutcomes, body \in 0..MaxBody :
          ServeStore(outcome, body)
    \/ Tick

HitSpec == ServeInit /\ [][HitNext]_vars

\* ------------------------------------------------------------------------
\* The invalidation watcher
\* ------------------------------------------------------------------------

\* The markers and patterns of handleFileChange.
BlogMarker == <<"b", "l", "o", "g">>
PagesMarker == <<"p", "a", "g", "e", "s">>
ThemesMarker == <<"t", "h", "e", "m", "e", "s">>
TemplatesMarker ==
    <<"t", "e", "m", "p", "l", "a", "t", "e", "s">>
BlogPattern == <<"/", "b", "l", "o", "g">>
HomePattern == <<"/">>
RssPattern == <<"r", "s", "s", ":">>
SitemapPattern == <<"s", "i", "t", "e", "m", "a", "p", ":">>

\* The keys under which the request path stored the post, the blog index,
\* the home page and the static page, derived before any file was modified.
PostKey == BuildKeyFor("post", SiteFiles)
IndexKey == BuildKeyFor("index", SiteFiles)
HomeKey == BuildKeyFor("home", SiteFiles)
PageKey == BuildKeyFor("page", SiteFiles)

\* A key of the feed namespace and one of the sitemap namespace: "rss:f"
\* and "sitemap:x".
RssKey == RssPattern \o <<"f">>
SitemapKey == SitemapPattern \o <<"x">>

WatchKeys == {PostKey, IndexKey, HomeKey, PageKey, RssKey, SitemapKey}

\* File modification times run from 1 up to MaxModTime.
MaxModTime == 2

\* Cache.Invalidate and Cache.Clear as functions of the store.
InvalidateIn(s, pathPattern) ==
    RemoveKeys(s, InvalidateKeys(s.entries, pathPattern))

InvalidateByFilePathIn(s, filePath) ==
    RemoveKeys(s, FilePathKeys(s.entries, filePath))

ClearIn(s) == [s EXCEPT !.entries = << >>, !.lru = << >>, !.total = 0]

\* A store on its way through handleFileChange, with the calls made on it.
Called(w, name, s) == [store |-> s, calls |-> Append(w.calls, name)]

\* handleFileChange without its check for theme and template files.
handleFileChangeNoClear(w, filePath) ==
    LET absPath == Abs(filePath)
        a == Called(w, "InvalidateByFilePath",
                    InvalidateByFilePathIn(w.store, absPath))
        b == IF Contains(absPath, BlogMarker)
             THEN Called(a, "Invalidate", InvalidateIn(InvalidateIn(
                      InvalidateIn(InvalidateIn(a.store, BlogPattern),
                                   HomePattern), RssPattern), SitemapPattern))
             ELSE a
    IN  IF Contains(absPath, PagesMarker)
        THEN Called(b, "Invalidate", InvalidateIn(b.store, SitemapPattern))
        ELSE b

\* handleFileChange checking for theme and template files first, and
\* calling nothing but Clear for them.
handleFileChangeThemeFirst(w, filePath) ==
    IF Contains(Abs(filePath), ThemesMarker)
       \/ Contains(Abs(filePath), TemplatesMarker)
    THEN Called(w, "Clear", ClearIn(w.store))
    ELSE handleFileChangeNoClear(w, filePath)

\* FileWatcher.handleFileChange
handleFileChange(w, filePath) ==
    LET absPath == Abs(filePath)
        a == Called(w, "InvalidateByFilePath",
                    InvalidateByFilePathIn(w.store, absPath))
        b == IF Contains(absPath, BlogMarker)
             THEN Called(a, "Invalidate", InvalidateIn(InvalidateIn(
                      InvalidateIn(InvalidateIn(a.store, BlogPattern),
                                   HomePattern), RssPattern), SitemapPattern))
             ELSE a
        c == IF Contains(absPath, PagesMarker)
             THEN Called(b, "Invalidate", InvalidateIn(b.store, SitemapPattern))
             ELSE b
    IN  IF Contains(absPath, ThemesMarker)
           \/ Contains(absPath, TemplatesMarker)
        THEN Called(c, "Clear", ClearIn(c.store))
        ELSE c

\* The files the walk of checkForChanges looks at: markdown and templates.
Tracked(path) ==
    \/ HasSuffix(ToLower(path), <<".", "m", "d">>)
    \/ HasSuffix(ToLower(path), <<".", "j", "e", "t">>)
    \/ HasSuffix(ToLower(path), <<".", "t", "m", "p", "l">>)

\* A walk that finds no file modified.
ChangedNever(files, fileTimes) == {}

\* A walk that takes a file whose time equals the recorded one for modified.
ChangedOrSame(files, fileTimes) ==
    {f \in DOMAIN files : /\ Tracked(f)
                          /\ f \in DOMAIN fileTimes
                          /\ files[f] >= fileTimes[f]}

\* A walk that takes a file it sees for the first time for a modified one.
ChangedOrNew(files, fileTimes) ==
    {f \in DOMAIN files : /\ Tracked(f)
                          /\ f \in DOMAIN fileTimes => files[f] > fileTimes[f]}

\* The files a walk finds modified: seen before, and newer than recorded.
Changed(files, fileTimes) ==
    {f \in DOMAIN files : /\ Tracked(f)
                          /\ f \in DOMAIN fileTimes
                          /\ files[f] > fileTimes[f]}

\* The path is one the file system refuses, or lies under one.
Under(path, refused) ==
    \E d \in refused : path = d \/ HasPrefix(path, d \o <<"/">>)

\* A walk that gives up a root at the first path it cannot read: it sees
\* nothing under a root that holds a refused path.
WalkedUntilRefused(files, refused) ==
    [f \in {g \in DOMAIN files :
                ~\E root \in WatchedRoots :
                    /\ HasPrefix(g, root \o <<"/">>)
                    /\ \E d \in refused :
                          d = root \/ HasPrefix(d, root \o <<"/">>)} |->
        files[f]]

\* The files filepath.Walk hands to the walk function with their FileInfo,
\* over all watched roots: the function returns nil for a path that comes
\* with an error, so a root that cannot be stat'ed, a directory that cannot
\* be listed and a file that cannot be stat'ed are left out and the walk
\* goes on with the paths next to them.
Walked(files, refused) ==
    [f \in {g \in DOMAIN files :
                /\ \E root \in WatchedRoots : HasPrefix(g, root \o <<"/">>)
                /\ ~Under(g, refused)} |-> files[f]]

\* handleFileChange for each of a set of files, one after the other.
RECURSIVE HandleAll(_, _)
HandleAll(w, fileSet) ==
    IF fileSet = {} THEN w
    ELSE HandleAll(handleFileChange(w, CHOOSE f \in fileSet : TRUE),
                   fileSet \ {CHOOSE f \in fileSet : TRUE})

\* The entry stored under the keys of the watched site.
WatchEntries == {e \in EntryInputs : e.Body = 0 /\ e.ExpiresAt = 0}

\* The Configs of the watched site: room for two entries.
WatchConfigs == {c \in Configs : c.MaxEntries = 2 /\ c.MaxSizeBytes = 1024}

\* A file of the site is modified: its modification time goes up.
Modify(f) ==
    /\ f \in DOMAIN fs
    /\ fs[f] < MaxModTime
    /\ fs' = [fs EXCEPT ![f] = @ + 1]
    /\ watcher' = [watcher EXCEPT
                      !.raised = IF f \in DOMAIN watcher.fileTimes
                                 THEN @ \cup {f} ELSE @]
    /\ UNCHANGED <<denied, cacheVars, keyVars, condVars, http, lifeVars,
                   lockVars>>

\* The modification time of a file is set back (a restored copy).
SetBack(f) ==
    /\ f \in DOMAIN fs
    /\ fs[f] > 1
    /\ fs' = [fs EXCEPT ![f] = @ - 1]
    /\ watcher' = [watcher EXCEPT !.raised = @ \ {f}]
    /\ UNCHANGED <<denied, cacheVars, keyVars, condVars, http, lifeVars,
                   lockVars>>

\* The file system starts to refuse a path: a file or a directory loses
\* its permissions, or a root is unmounted.
Deny(path) ==
    /\ path \notin denied
    /\ denied' = denied \cup {path}
    /\ UNCHANGED <<cacheVars, keyVars, condVars, http, fs, watcher, lifeVars,
                   lockVars>>

\* The file system gives a refused path back.
Allow(path) ==
    /\ path \in denied
    /\ denied' = denied \ {path}
    /\ UNCHANGED <<cacheVars, keyVars, condVars, http, fs, watcher, lifeVars,
                   lockVars>>

\* A file is created under a watched root.
Create(f) ==
    /\ f \notin DOMAIN fs
    /\ fs' = fs @@ (f :> 1)
    /\ UNCHANGED <<denied, cacheVars, keyVars, condVars, http, watcher, lifeVars,
                   lockVars>>

\* FileWatcher.Start: wg.Add(1) and the go statement.
Start ==
    /\ watcher.loop = "none"
    /\ watcher' = [watcher EXCEPT !.wg = @ + 1, !.loop = "spawned"]
    /\ UNCHANGED <<cacheVars, keyVars, condVars, http, fs, denied, lifeVars,
                   lockVars>>

\* watchLoop begins to run: it makes its ticker and reaches the select.
LoopBegin ==
    /\ watcher.loop = "spawned"
    /\ watcher' = [watcher EXCEPT !.loop = "select"]
    /\ UNCHANGED <<cacheVars, keyVars, condVars, http, fs, denied, lifeVars,
                   lockVars>>

\* watchLoop: case <-ticker.C.  When stopCh is closed as well, select may
\* still take this case.
PollTick ==
    /\ watcher.loop = "select"
    /\ watcher' = [watcher EXCEPT !.loop = "polling"]
    /\ UNCHANGED <<cacheVars, keyVars, condVars, http, fs, denied, lifeVars,
                   lockVars>>

\* The wg.Wait() of Stop returning at once, whatever the counter.
WaitReturnsAtOnce(w) == TRUE

\* fw.wg.Wait() returns: the counter is zero.
WaitReturns(w) == w.wg = 0

\* checkForChanges: the walk records the files it sees for the first time,
\* and for each file it finds modified it records the new time and calls
\* handleFileChange, whose store calls each take the store lock.
Poll ==
    /\ watcher.loop = "polling"
    /\ \E seen \in {Walked(fs, denied)} :
       \E ch \in {Changed(seen, watcher.fileTimes)} :
       \E w \in {HandleAll([store |-> Cur, calls |-> <<>>], ch)} :
           /\ ch # {} => ~hung
           /\ entries' = w.store.entries
           /\ lruList' = w.store.lru
           /\ totalSize' = w.store.total
           /\ recency' = Keep(recency, DOMAIN w.store.entries)
           /\ last' = [Op("poll", EmptyKey) EXCEPT
                          !.n = Cardinality(DOMAIN entries)
                                - Cardinality(DOMAIN w.store.entries),
                          !.preCount = Cardinality(DOMAIN entries),
                          !.mid = [@ EXCEPT !.lru = lruList]]
           /\ watcher' = [watcher EXCEPT
                             !.loop = "select",
                             !.fileTimes =
                                 [f \in DOMAIN watcher.fileTimes
                                        \cup {g \in DOMAIN seen : Tracked(g)}
                                  |-> IF f \in DOMAIN watcher.fileTimes
                                         /\ f \notin ch
                                      THEN watcher.fileTimes[f] ELSE seen[f]],
                             !.handled = ch,
                             !.raised = @ \ ch,
                             !.first = {f \in DOMAIN seen :
                                           /\ Tracked(f)
                                           /\ f \notin DOMAIN watcher.fileTimes},
                             !.calls = w.calls,
                             !.late = @ \/ watcher.stop = "waiting"]
    /\ run' = RunOff
    /\ UNCHANGED <<config, now, hung, janitor, keyVars, condVars, http, fs,
                   denied, lifeVars, lockVars>>

\* FileWatcher.Stop, called after Start has returned: close(fw.stopCh).
StopSignal ==
    /\ watcher.loop # "none"
    /\ watcher.stop = "none"
    /\ watcher' = [watcher EXCEPT !.stop = "waiting", !.stopCh = "closed"]
    /\ UNCHANGED <<cacheVars, keyVars, condVars, http, fs, denied, lifeVars,
                   lockVars>>

\* watchLoop: case <-fw.stopCh, and the deferred wg.Done().
LoopExit ==
    /\ watcher.loop = "select"
    /\ watcher.stopCh = "closed"
    /\ watcher' = [watcher EXCEPT !.loop = "exited", !.wg = @ - 1]
    /\ UNCHANGED <<cacheVars, keyVars, condVars, http, fs, denied, lifeVars,
                   lockVars>>

\* FileWatcher.Stop returns from fw.wg.Wait().
StopReturn ==
    /\ watcher.stop = "waiting"
    /\ WaitReturns(watcher)
    /\ watcher' = [watcher EXCEPT !.stop = "returned"]
    /\ UNCHANGED <<cacheVars, keyVars, condVars, http, fs, denied, lifeVars,
                   lockVars>>

\* The site after start-up: the store is new, the watcher has been started
\* and its loop waits in the select.  The blog post and the theme file are
\* the files that get modified, the time of the blog post may be set back,
\* and a second blog post gets created.
WatchInit ==
    /\ config \in WatchConfigs
    /\ entries = << >>
    /\ lruList = << >>
    /\ totalSize = 0
    /\ now = 1
    /\ hung = FALSE
    /\ janitor = "running"
    /\ last = Op("New", EmptyKey)
    /\ recency = << >>
    /\ run = RunOff
    /\ params = NoParams /\ other = NoParams /\ keys = << >>
    /\ cond = NoCond
    /\ http = NoRequest
    /\ fs = SiteFiles
    /\ denied = {}
    /\ watcher = [NoWatcher EXCEPT !.loop = "select", !.wg = 1]
    /\ closing = NotClosing
    /\ LockIdle

WatchNext ==
    \/ \E key \in WatchKeys, entry \in WatchEntries : Set(key, entry)
    \/ \E f \in {PostFile, ThemeFile} : Modify(f)
    \/ PollTick
    \/ Poll

WatchSpec == WatchInit /\ [][WatchNext]_vars

\* The watched site whose files come and go back in time as well: a blog
\* post is created, and the time of a post is set back (a restored copy).
\* The store gets the entries of the feed and of the sitemap.
WatchFilesNext ==
    \/ \E key \in {RssKey, SitemapKey}, entry \in WatchEntries :
          Set(key, entry)
    \/ \E f \in {PostFile, ThemeFile} : Modify(f)
    \/ SetBack(PostFile)
    \/ Create(NewFile)
    \/ PollTick
    \/ Poll

WatchFilesSpec == WatchInit /\ [][WatchFilesNext]_vars

\* The paths that become unreadable: the blog post, the directory of the
\* blog posts, and the root of the themes.
BlogDir == DataDir \o <<"/", "b", "l", "o", "g">>

DeniedChoices == {PostFile, BlogDir, ThemeDir}

\* The watched site with paths that become unreadable and readable again,
\* while the blog post, the static page and the theme file get modified.
WalkNext ==
    \/ \E entry \in WatchEntries : Set(RssKey, entry)
    \/ \E f \in {PostFile, PageFile, ThemeFile} : Modify(f)
    \/ \E path \in DeniedChoices : Deny(path)
    \/ \E path \in DeniedChoices : Allow(path)
    \/ PollTick
    \/ Poll

WalkSpec == WatchInit /\ [][WalkNext]_vars

\* The content file of a blog-post or page request.
ContentFile(page) == IF page = "post" THEN PostFile ELSE PageFile

\* The handlers blogPost and page, statement by statement.  LoadBlogPost or
\* LoadPage reads the content file; the version read is named by the
\* modification time the file has at that moment.
LoadContent(page) ==
    /\ http.phase = "idle"
    /\ http' = [phase |-> "loaded", req |-> [page |-> page], key |-> <<>>,
                resp |-> "none", content |-> fs[ContentFile(page)]]
    /\ UNCHANGED <<cacheVars, keyVars, condVars, fs, denied, watcher,
                   lifeVars, lockVars>>

\* BuildKeyForBlogPost or BuildKeyForPage: the key is derived from the
\* modification time the file has now.
BuildKeyForContent ==
    /\ http.phase = "loaded"
    /\ http' = [http EXCEPT !.phase = "keyed",
                            !.key = BuildKeyFor(http.req.page, fs)]
    /\ UNCHANGED <<cacheVars, keyVars, condVars, fs, denied, watcher,
                   lifeVars, lockVars>>

\* renderWithCache up to the render: a hit is answered from the store, a
\* miss goes on to render the content that was loaded.
LookupContent ==
    /\ http.phase = "keyed"
    /\ CacheGet(http.key)
    /\ http' = IF last'.ok
               THEN [http EXCEPT !.phase = "idle", !.resp = "hit"]
               ELSE [http EXCEPT !.phase = "rendering"]
    /\ UNCHANGED <<keyVars, condVars, fs, denied, watcher, lifeVars,
                   lockVars>>

\* renderWithCache after the render: the page rendered from the loaded
\* content is stored under the key.  from: the version of the content file
\* the body was rendered from.
StoreContent ==
    /\ http.phase = "rendering"
    /\ CacheSet(http.key,
                [from |-> http.content]
                    @@ CreateCacheEntry(0, 200, now, config.DefaultTTL))
    /\ http' = [http EXCEPT !.phase = IF hung' THEN "stuck" ELSE "idle",
                            !.resp = IF hung' THEN "none" ELSE "fresh"]
    /\ UNCHANGED <<keyVars, condVars, fs, denied, watcher, lifeVars,
                   lockVars>>

\* Requests of the blog post and of the static page, while their content
\* files get modified.
ContentNext ==
    \/ \E page \in {"post", "page"} : LoadContent(page)
    \/ BuildKeyForContent
    \/ LookupContent
    \/ StoreContent
    \/ \E f \in {PostFile, PageFile} : Modify(f)

ContentSpec == ServeInit /\ [][ContentNext]_vars

\* The entries a caller of the package hands to Set under the key of the
\* static page: a body, no header, and the ETag left empty or set.
SizeEntries ==
    [Body : 0..MaxBody, Headers : {0}, ContentType : {0}, ETag : {0, ETagLen},
     CreatedAt : {0}, ExpiresAt : {0}, StatusCode : {200}, LastMod : {0}]

\* The store used through the package and through the request path at
\* once: Set and Delete by a caller, renderWithCache by the handler of the
\* static page.  The caller sets its entry while the store is empty and
\* its size counter is 0, which keeps the counter within bounds.
SizeNext ==
    \/ \E entry \in SizeEntries :
          entries = << >> /\ totalSize = 0 /\ Set(PageKey, entry)
    \/ Delete(PageKey)
    \/ \E r \in {q \in HitRequests : q.IfModifiedSince = <<>>} :
          ServeConditional(r)
    \/ \E outcome \in RenderOutcomes, body \in 0..MaxBody :
          ServeStore(outcome, body)
    \/ Tick

SizeSpec == ServeInit /\ [][SizeNext]_vars

\* The watched site with a ticker that keeps firing and walks that end:
\* whenever the loop waits in its select a tick is taken, and a walk that
\* was begun is finished.  The store gets the entry of the feed.
WatchLiveNext ==
    \/ \E entry \in WatchEntries : Set(RssKey, entry)
    \/ \E f \in {PostFile, ThemeFile} : Modify(f)
    \/ SetBack(PostFile)
    \/ PollTick
    \/ Poll

WatchLiveSpec ==
    WatchInit /\ [][WatchLiveNext]_vars /\ WF_vars(PollTick) /\ WF_vars(Poll)

\* The site from the construction of its watcher to the return of Stop.
StopInit ==
    /\ config \in WatchConfigs
    /\ entries = << >>
    /\ lruList = << >>
    /\ totalSize = 0
    /\ now = 1
    /\ hung = FALSE
    /\ janitor = "running"
    /\ last = Op("New", EmptyKey)
    /\ recency = << >>
    /\ run = RunOff
    /\ params = NoParams /\ other = NoParams /\ keys = << >>
    /\ cond = NoCond
    /\ http = NoRequest
    /\ fs = SiteFiles
    /\ denied = {}
    /\ watcher = NoWatcher
    /\ closing = NotClosing
    /\ LockIdle

StopNext ==
    \/ \E key \in {RssKey, SitemapKey}, entry \in WatchEntries : Set(key, entry)
    \/ \E f \in {PostFile, PageFile} : Modify(f)
    \/ Start
    \/ LoopBegin
    \/ PollTick
    \/ Poll
    \/ StopSignal
    \/ LoopExit
    \/ StopReturn

StopSpec == StopInit /\ [][StopNext]_vars

\* ------------------------------------------------------------------------
\* The janitor and Close, step by step
\* ------------------------------------------------------------------------

\* The Configs of the store whose janitor is followed: one or two entries.
JanitorConfigs == {c \in Configs : c.MaxEntries \in {1, 2}}

\* janitor: case <-ticker.C.  When stopCh is closed as well, select may
\* still take this case.
JanitorTick ==
    /\ janitor = "running"
    /\ janitor' = "sweeping"
    /\ UNCHANGED <<config, entries, lruList, totalSize, now, hung, last,
                   recency, run, auxVars>>

\* janitor: c.cleanup(), and back to the select.
JanitorSweep ==
    /\ janitor = "sweeping"
    /\ CacheCleanup
    /\ janitor' = "running"
    /\ closing' = [closing EXCEPT !.swept = @ \/ closing.call = "waiting"]
    /\ UNCHANGED <<keyVars, condVars, siteVars, lockVars>>

\* Cache.Close: close(c.stopCh).
CloseSignal ==
    /\ closing.call = "none"
    /\ closing' = [closing EXCEPT !.call = "waiting"]
    /\ UNCHANGED <<cacheVars, keyVars, condVars, siteVars, lockVars>>

\* janitor: case <-c.stopCh, and the deferred wg.Done().
JanitorExit ==
    /\ janitor = "running"
    /\ closing.call # "none"
    /\ janitor' = "stopped"
    /\ UNCHANGED <<config, entries, lruList, totalSize, now, hung, last,
                   recency, run, auxVars>>

\* The wg.Wait() of Close returning while the janitor is still there.
JanitorGoneOrNot(j) == TRUE

\* c.wg.Wait() returns: the janitor has called wg.Done().
JanitorGone(j) == j = "stopped"

\* Cache.Close returns from c.wg.Wait().
CloseReturn ==
    /\ closing.call = "waiting"
    /\ JanitorGone(janitor)
    /\ closing' = [closing EXCEPT !.call = "returned"]
    /\ UNCHANGED <<cacheVars, keyVars, condVars, siteVars, lockVars>>

JanitorInit ==
    /\ config \in JanitorConfigs
    /\ entries = << >>
    /\ lruList = << >>
    /\ totalSize = 0
    /\ now = 1
    /\ hung = FALSE
    /\ janitor = "running"
    /\ last = Op("New", EmptyKey)
    /\ recency = << >>
    /\ run = RunOff
    /\ params = NoParams /\ other = NoParams /\ keys = << >>
    /\ cond = NoCond
    /\ SiteIdle
    /\ closing = NotClosing
    /\ LockIdle

JanitorNext ==
    \/ \E key \in Keys, entry \in EntryInputs : Set(key, entry)
    \/ Tick
    \/ JanitorTick
    \/ JanitorSweep
    \/ CloseSignal
    \/ JanitorExit
    \/ CloseReturn

JanitorSpec == JanitorInit /\ [][JanitorNext]_vars

\* ------------------------------------------------------------------------
\* The store lock, statement by statement.  Each call of the store is
\* followed from the call, through c.mu.Lock() and the statements that write
\* the map, the eviction list and the size total one after the other, to the
\* deferred Unlock.  The history variables last, recency and run are not
\* kept by these steps.
\* ------------------------------------------------------------------------

\* The goroutines that take the lock for writing.
Writers == Threads \ {"stats"}

\* The entries handed to Set: ExpiresAt unset, or a time that passes.
LockEntries == {e \in EntryInputs : e.Body = 0}

\* The Configs of the store whose lock is followed.
LockConfigs ==
    {c \in Configs : c.MaxEntries \in {0, 1, 2} /\ c.MaxSizeBytes = 1024}

lockFrame == <<config, now, janitor, last, recency, run, keyVars, condVars,
               siteVars, lifeVars>>

\* A call begins: the goroutine is about to take the lock.
Call(t, op, key, entry) ==
    /\ thr[t].pc = "idle"
    /\ thr' = [thr EXCEPT ![t] = [IdleThread EXCEPT !.pc = "called",
                                     !.op = op, !.key = key, !.entry = entry]]
    /\ UNCHANGED <<entries, lruList, totalSize, hung, mu, lockFrame>>

\* A Lock() that returns whoever holds the lock.
CanLockAnyway(m) == TRUE

\* c.mu.Lock() returns: nobody holds the lock, for writing or for reading.
CanLock(m) == m.writer = "none" /\ m.readers = 0

\* An RLock() that returns while a writer holds the lock.
CanRLockAnyway(m) == TRUE

\* c.mu.RLock() returns: nobody holds the lock for writing.
CanRLock(m) == m.writer = "none"

\* The first statement of each operation after c.mu.Lock().
FirstStep(op) ==
    CASE op = "Get" -> "lookup"
      [] op = "Set" -> "replace"
      [] op = "Delete" -> "find"
      [] op = "Clear" -> "clearMap"
      [] OTHER -> "collect"

\* c.mu.Lock()
AcquireLock(t) ==
    /\ thr[t].pc = "called"
    /\ CanLock(mu)
    /\ mu' = [mu EXCEPT !.writer = t]
    /\ thr' = [thr EXCEPT ![t].pc = FirstStep(thr[t].op)]
    /\ UNCHANGED <<entries, lruList, totalSize, hung, lockFrame>>

\* Get: the lookup, the expiry check, and Touch with moveToFront.
GetLookup ==
    /\ thr["handler"].pc = "lookup"
    /\ \E key \in {thr["handler"].key} :
          IF key \notin DOMAIN entries
          THEN /\ thr' = [thr EXCEPT !["handler"].pc = "unlock"]
               /\ UNCHANGED lruList
          ELSE IF IsExpired(entries[key], now)
          THEN /\ thr' = [thr EXCEPT !["handler"].pc = "remove",
                                     !["handler"].todo = <<key>>,
                                     !["handler"].ret = "unlock"]
               /\ UNCHANGED lruList
          ELSE /\ lruList' = moveToFront(lruList, key)
               /\ thr' = [thr EXCEPT !["handler"].pc = "unlock",
                                     !["handler"].ok = TRUE]
    /\ UNCHANGED <<entries, totalSize, hung, mu, lockFrame>>

\* Set: if the key exists, its size is subtracted and it is unlinked.
SetReplace ==
    /\ thr["handler"].pc = "replace"
    /\ \E key \in {thr["handler"].key} :
          IF key \in DOMAIN entries
          THEN /\ totalSize' = totalSize - SizeBytes(entries[key])
               /\ lruList' = remove(lruList, key)
          ELSE UNCHANGED <<totalSize, lruList>>
    /\ thr' = [thr EXCEPT !["handler"].pc = "store"]
    /\ UNCHANGED <<entries, hung, mu, lockFrame>>

\* Set: ExpiresAt is stamped and c.entries[key] = entry.
SetStore ==
    /\ thr["handler"].pc = "store"
    /\ entries' = (thr["handler"].key
                     :> Stamp(thr["handler"].entry, now, config)) @@ entries
    /\ thr' = [thr EXCEPT !["handler"].pc = "account"]
    /\ UNCHANGED <<lruList, totalSize, hung, mu, lockFrame>>

\* Set: c.totalSize += entry.SizeBytes()
SetAccount ==
    /\ thr["handler"].pc = "account"
    /\ totalSize' = totalSize + SizeBytes(thr["handler"].entry)
    /\ thr' = [thr EXCEPT !["handler"].pc = "link"]
    /\ UNCHANGED <<entries, lruList, hung, mu, lockFrame>>

\* Set: c.lruList.addToFront(key)
SetLink ==
    /\ thr["handler"].pc = "link"
    /\ lruList' = addToFront(lruList, thr["handler"].key)
    /\ thr' = [thr EXCEPT !["handler"].pc = "evictCount"]
    /\ UNCHANGED <<entries, totalSize, hung, mu, lockFrame>>

\* evictIfNecessary: one test of the condition of the count loop or of the
\* size loop and, when it holds, removeOldest.  The key it returns goes to
\* removeEntry unless it is ""; on an empty list the loop spins for ever.
Evict ==
    /\ thr["handler"].pc \in {"evictCount", "evictSize"}
    /\ \E pc \in {thr["handler"].pc} :
          IF ~(IF pc = "evictCount"
               THEN Cardinality(DOMAIN entries) > config.MaxEntries
               ELSE /\ totalSize > config.MaxSizeBytes
                    /\ Cardinality(DOMAIN entries) > 0)
          THEN /\ thr' = [thr EXCEPT !["handler"].pc =
                              IF pc = "evictCount" THEN "evictSize"
                              ELSE "unlock"]
               /\ UNCHANGED <<lruList, hung>>
          ELSE IF lruList = <<>>
          THEN /\ thr' = [thr EXCEPT !["handler"].pc = "spinning"]
               /\ hung' = TRUE
               /\ UNCHANGED lruList
          ELSE /\ lruList' = removeOldest(lruList).list
               /\ thr' = IF removeOldest(lruList).key # EmptyKey
                         THEN [thr EXCEPT
                                  !["handler"].pc = "remove",
                                  !["handler"].todo =
                                      <<removeOldest(lruList).key>>,
                                  !["handler"].ret = pc,
                                  !["handler"].n = @ + 1]
                         ELSE thr
               /\ UNCHANGED hung
    /\ UNCHANGED <<entries, totalSize, mu, lockFrame>>

\* Delete: the lookup.  Its three statements are those of removeEntry.
DeleteFind ==
    /\ thr["handler"].pc = "find"
    /\ thr' = IF thr["handler"].key \in DOMAIN entries
              THEN [thr EXCEPT !["handler"].pc = "remove",
                               !["handler"].todo = <<thr["handler"].key>>,
                               !["handler"].ret = "unlock",
                               !["handler"].ok = TRUE]
              ELSE [thr EXCEPT !["handler"].pc = "unlock"]
    /\ UNCHANGED <<entries, lruList, totalSize, hung, mu, lockFrame>>

\* Invalidate, InvalidateByFilePath and cleanup: the range over the map
\* that collects the keys to remove, in the order the range visits them.
Collect(t) ==
    /\ thr[t].pc = "collect"
    /\ \E ks \in {CASE thr[t].op = "Invalidate" ->
                         InvalidateKeys(entries, thr[t].key)
                    [] thr[t].op = "InvalidateByFilePath" ->
                         FilePathKeys(entries, thr[t].key)
                    [] OTHER -> ExpiredKeys(entries, now)} :
       \E order \in IterationOrders(ks) :
          thr' = [thr EXCEPT ![t].pc = IF ks = {} THEN "unlock" ELSE "remove",
                             ![t].todo = order,
                             ![t].ret = "unlock",
                             ![t].n = Cardinality(ks)]
    /\ UNCHANGED <<entries, lruList, totalSize, hung, mu, lockFrame>>

\* Where a goroutine goes on when removeEntry returns.
AfterRemove(t) ==
    [thr EXCEPT ![t].todo = Tail(@),
                ![t].pc = IF Len(thr[t].todo) = 1 THEN thr[t].ret
                          ELSE "remove"]

\* removeEntry: the lookup and c.totalSize -= entry.SizeBytes()
RemoveAccount(t) ==
    /\ thr[t].pc = "remove"
    /\ IF Head(thr[t].todo) \in DOMAIN entries
       THEN /\ totalSize' = totalSize - SizeBytes(entries[Head(thr[t].todo)])
            /\ thr' = [thr EXCEPT ![t].pc = "unmap"]
       ELSE /\ thr' = AfterRemove(t)
            /\ UNCHANGED totalSize
    /\ UNCHANGED <<entries, lruList, hung, mu, lockFrame>>

\* removeEntry: delete(c.entries, key)
RemoveUnmap(t) ==
    /\ thr[t].pc = "unmap"
    /\ entries' = Without(entries, Head(thr[t].todo))
    /\ thr' = [thr EXCEPT ![t].pc = "unlink"]
    /\ UNCHANGED <<lruList, totalSize, hung, mu, lockFrame>>

\* removeEntry: c.lruList.remove(key)
RemoveUnlink(t) ==
    /\ thr[t].pc = "unlink"
    /\ lruList' = remove(lruList, Head(thr[t].todo))
    /\ thr' = AfterRemove(t)
    /\ UNCHANGED <<entries, totalSize, hung, mu, lockFrame>>

\* Clear: c.entries = make(map[string]*Entry)
ClearMap ==
    /\ thr["watcher"].pc = "clearMap"
    /\ entries' = << >>
    /\ thr' = [thr EXCEPT !["watcher"].pc = "clearList"]
    /\ UNCHANGED <<lruList, totalSize, hung, mu, lockFrame>>

\* Clear: c.lruList = newLRUList()
ClearList ==
    /\ thr["watcher"].pc = "clearList"
    /\ lruList' = << >>
    /\ thr' = [thr EXCEPT !["watcher"].pc = "clearSize"]
    /\ UNCHANGED <<entries, totalSize, hung, mu, lockFrame>>

\* Clear: c.totalSize = 0
ClearSize ==
    /\ thr["watcher"].pc = "clearSize"
    /\ totalSize' = 0
    /\ thr' = [thr EXCEPT !["watcher"].pc = "unlock"]
    /\ UNCHANGED <<entries, lruList, hung, mu, lockFrame>>

\* The deferred c.mu.Unlock(), and the return.
Unlock(t) ==
    /\ thr[t].pc = "unlock"
    /\ mu' = [mu EXCEPT !.writer = "none"]
    /\ thr' = [thr EXCEPT ![t] = IdleThread]
    /\ UNCHANGED <<entries, lruList, totalSize, hung, lockFrame>>

\* Stats: c.mu.RLock()
StatsRLock ==
    /\ thr["stats"].pc = "called"
    /\ CanRLock(mu)
    /\ mu' = [mu EXCEPT !.readers = @ + 1]
    /\ thr' = [thr EXCEPT !["stats"].pc = "readEntries"]
    /\ UNCHANGED <<entries, lruList, totalSize, hung, lockFrame>>

\* Stats: Entries: len(c.entries)
StatsReadEntries ==
    /\ thr["stats"].pc = "readEntries"
    /\ thr' = [thr EXCEPT !["stats"].Entries = Cardinality(DOMAIN entries),
                          !["stats"].pc = "readSize"]
    /\ UNCHANGED <<entries, lruList, totalSize, hung, mu, lockFrame>>

\* Stats: SizeBytes: c.totalSize
StatsReadSize ==
    /\ thr["stats"].pc = "readSize"
    /\ thr' = [thr EXCEPT !["stats"].SizeBytes = totalSize,
                          !["stats"].pc = "runlock"]
    /\ UNCHANGED <<entries, lruList, totalSize, hung, mu, lockFrame>>

\* Stats: the deferred c.mu.RUnlock(), and the return.
StatsRUnlock ==
    /\ thr["stats"].pc = "runlock"
    /\ mu' = [mu EXCEPT !.readers = @ - 1]
    /\ thr' = [thr EXCEPT !["stats"] = IdleThread]
    /\ UNCHANGED <<entries, lruList, totalSize, hung, lockFrame>>

LockInit ==
    /\ config \in LockConfigs
    /\ entries = << >>
    /\ lruList = << >>
    /\ totalSize = 0
    /\ now = 1
    /\ hung = FALSE
    /\ janitor = "running"
    /\ last = Op("New", EmptyKey)
    /\ recency = << >>
    /\ run = RunOff
    /\ params = NoParams /\ other = NoParams /\ keys = << >>
    /\ cond = NoCond
    /\ SiteIdle
    /\ closing = NotClosing
    /\ LockIdle

LockNext ==
    \/ \E key \in Keys : Call("handler", "Get", key, NoEntry)
    \/ \E key \in Keys, entry \in LockEntries : Call("handler", "Set", key, entry)
    \/ \E key \in Keys : Call("handler", "Delete", key, NoEntry)
    \/ \E pathPattern \in {<<"a">>} :
          Call("watcher", "Invalidate", pathPattern, NoEntry)
    \/ \E filePath \in FilePaths :
          Call("watcher", "InvalidateByFilePath", filePath, NoEntry)
    \/ Call("watcher", "Clear", <<>>, NoEntry)
    \/ Call("janitor", "cleanup", <<>>, NoEntry)
    \/ Call("stats", "Stats", <<>>, NoEntry)
    \/ \E t \in Writers : AcquireLock(t)
    \/ GetLookup
    \/ SetReplace
    \/ SetStore
    \/ SetAccount
    \/ SetLink
    \/ Evict
    \/ DeleteFind
    \/ \E t \in Writers : Collect(t)
    \/ \E t \in Writers : RemoveAccount(t)
    \/ \E t \in Writers : RemoveUnmap(t)
    \/ \E t \in Writers : RemoveUnlink(t)
    \/ ClearMap
    \/ ClearList
    \/ ClearSize
    \/ \E t \in Writers : Unlock(t)
    \/ StatsRLock
    \/ StatsReadEntries
    \/ StatsReadSize
    \/ StatsRUnlock
    \/ Tick

LockSpec == LockInit /\ [][LockNext]_vars

\* ------------------------------------------------------------------------
\* Properties of the store
\* ------------------------------------------------------------------------

Count(es) == Cardinality(DOMAIN es)

\* C1: in every state in which no operation is in progress, the keys of the
\* entries map are exactly the keys held in the eviction list.
C1_StoreMatchesList == ~hung => DOMAIN entries = Range(lruList)

\* The store can hold every entry of a run of MaxEntries+1 Sets at once: the
\* size limit is not in play.
SizeNotInPlay ==
    config.MaxSizeBytes >= (config.MaxEntries + 1) * (EntryOverhead + MaxBody)

\* No stored entry has expired: expiry is not in play.
ExpiryNotInPlay == \A k \in DOMAIN entries : ~(now > entries[k].ExpiresAt)

\* C2: after MaxEntries+1 Sets of distinct keys on a new store, with no other
\* operation in between and neither the size limit nor expiry in play, Get
\* misses the first key set and finds each of the others.
C2_FirstInsertedEvicted ==
    (/\ run.on
     /\ config.MaxEntries >= 0
     /\ Len(run.keys) = config.MaxEntries + 1
     /\ SizeNotInPlay
     /\ ExpiryNotInPlay)
    => /\ run.keys[1] \notin DOMAIN entries
       /\ \A i \in 2..Len(run.keys) : run.keys[i] \in DOMAIN entries

\* C3: a successful Get leaves its key at the front of the eviction list, and
\* the keys the count pass of a Set evicts are, in order, the keys whose last
\* Set or successful Get is the oldest among the stored keys.
C3_EvictsLeastRecentlyUsed ==
    /\ (last.op = "Get" /\ last.ok)
       => (Len(lruList) > 0 /\ lruList[1] = last.key)
    /\ last.op = "Set"
       => \A i \in 1..Len(last.evC) :
             last.evC[i] = last.mid.order[Len(last.mid.order) - i + 1]

\* C4: Get never returns an entry whose ExpiresAt is before the time of the
\* call; when it finds one it reports a miss and the key is gone from the
\* map and from the eviction list, and the size total has dropped by the
\* entry's size.
C4_GetNeverReturnsExpired ==
    last.op = "Get" =>
        /\ last.ok => /\ last.key \in DOMAIN entries
                      /\ ~(now > entries[last.key].ExpiresAt)
        /\ last.expired => /\ ~last.ok
                           /\ last.key \notin DOMAIN entries
                           /\ last.key \notin Range(lruList)
                           /\ totalSize = last.base - last.size

\* A Get has found an entry expired that the janitor had not swept, and has
\* removed it, leaving another entry in the store.
C4_Witness ==
    /\ last.op = "Get" /\ last.expired /\ ~last.ok
    /\ last.key \notin DOMAIN entries
    /\ Count(entries) > 0
    /\ janitor = "running"

\* C5: a cleanup removes every entry whose ExpiresAt has passed, wherever it
\* is in the eviction list, and no other: Stats().Entries counts exactly the
\* unexpired entries afterwards, and those are unchanged.
C5_CleanupRemovesExactlyExpired ==
    [][Cleanup =>
        /\ DOMAIN entries' =
              {k \in DOMAIN entries : ~(now > entries[k].ExpiresAt)}
        /\ \A k \in DOMAIN entries' : entries'[k] = entries[k]
        /\ Range(lruList') = Range(lruList) \cap DOMAIN entries'
        /\ Count(entries') = Count(entries) - last'.n]_vars

\* A cleanup has removed an expired entry from the front of the eviction
\* list (the most recently used key) and has kept the unexpired one behind it.
C5_Witness ==
    /\ last.op = "cleanup"
    /\ last.n = 1
    /\ last.preCount = 2
    /\ Len(last.mid.lru) = 2
    /\ last.mid.lru[1] \notin DOMAIN entries
    /\ last.mid.lru[2] \in DOMAIN entries
    /\ entries[last.mid.lru[2]].ExpiresAt >= now

\* C6 (as claimed): after Set(k, e) followed by Delete(k), the total size is
\* the value it had before the Set.
C6_SetDeleteRestoresSize ==
    (last.op = "Delete" /\ last.afterSet) => totalSize = last.base

\* C6 (amended): when k was not stored before the Set and the Set evicted
\* nothing, after Set(k, e) followed by Delete(k) the total size is the value
\* it had before the Set.
C6_FreshSetDeleteRestoresSize ==
    (last.op = "Delete" /\ last.afterSet /\ last.setClean)
    => totalSize = last.base

\* A Delete has followed the Set of a new key into a store that held another
\* entry, and the total is back at that entry's size.
C6_Witness ==
    /\ last.op = "Delete" /\ last.afterSet /\ last.setClean /\ last.ok
    /\ last.base > 0
    /\ totalSize = last.base

\* C7: when Set returns, the store holds at most MaxEntries entries, and its
\* total size is at most MaxSizeBytes unless it is empty; with MaxEntries = 0
\* it holds none.
C7_LimitsHoldAfterSet ==
    last.op = "Set" =>
        /\ Count(entries) <= config.MaxEntries
        /\ (totalSize <= config.MaxSizeBytes \/ Count(entries) = 0)
        /\ (config.MaxEntries = 0 => Count(entries) = 0)

\* A Set has returned after both passes evicted: the count pass one entry,
\* the size pass another.
C7_Witness ==
    /\ last.op = "Set"
    /\ Len(last.evC) > 0
    /\ Len(last.evS) > 0

\* C8: a Set on a key that is already stored replaces its entry: before
\* eviction runs the entry count is what it was, the total size has changed
\* by the new entry's size minus the old one's, and the key is in the
\* eviction list once, at the front.
C8_SetReplaces ==
    (last.op = "Set" /\ last.existed) =>
        /\ last.mid.count = last.preCount
        /\ last.mid.total = last.base + last.size - last.oldSize
        /\ Len(last.mid.lru) > 0
        /\ last.mid.lru[1] = last.key
        /\ Cardinality({i \in 1..Len(last.mid.lru) :
                            last.mid.lru[i] = last.key}) = 1

\* A Set has replaced an entry by one of another size while a second entry
\* was stored.
C8_Witness ==
    /\ last.op = "Set" /\ last.existed
    /\ last.size # last.oldSize
    /\ last.preCount = 2
    /\ last.mid.total = last.base + last.size - last.oldSize

\* C9: Set installs the new entry before eviction runs; eviction unlinks the
\* new key only as the last key left in the eviction list; and when the new
\* entry has been evicted, every older entry has been evicted before it.
C9_NewEntryEvictedLast ==
    last.op = "Set" =>
        /\ Len(last.mid.lru) > 0 /\ last.mid.lru[1] = last.key
        /\ last.key \in Range(last.popped)
              => /\ last.popped[Len(last.popped)] = last.key
                 /\ Len(last.popped) = Len(last.mid.lru)
        /\ ~last.ok => Count(entries) = 0

\* C21: Delete(k) returns true exactly when k is stored at the call, whether
\* its entry has expired or not; afterwards k is neither in the map nor in
\* the eviction list, the total size has dropped by the size of k's entry
\* and every other entry is as it was.  When k is not stored, Delete
\* returns false and changes neither the map, the list nor the total.
C21_DeleteRemovesStoredKey ==
    [][\A key \in Keys :
          Delete(key) =>
              /\ last'.ok <=> key \in DOMAIN entries
              /\ key \notin DOMAIN entries'
              /\ key \notin Range(lruList')
              /\ IF key \in DOMAIN entries
                 THEN /\ totalSize' = totalSize - SizeBytes(entries[key])
                      /\ DOMAIN entries' = DOMAIN entries \ {key}
                      /\ \A k \in DOMAIN entries' : entries'[k] = entries[k]
                      /\ lruList' = SelectSeq(lruList, LAMBDA x : x # key)
                 ELSE /\ entries' = entries
                      /\ lruList' = lruList
                      /\ totalSize' = totalSize]_vars

\* Delete has returned true for an entry that had expired and had not been
\* swept, and has left another entry in the store.
C21_Witness ==
    /\ last.op = "Delete" /\ last.ok /\ last.expired
    /\ last.key \notin DOMAIN entries
    /\ Count(entries) > 0
    /\ janitor = "running"

\* p occurs in k as a run of consecutive characters.
Occurs(p, k) ==
    \E i \in 1..(Len(k) - Len(p) + 1) : SubSeq(k, i, i + Len(p) - 1) = p

\* The sum of the sizes of the entries under a set of keys.
RECURSIVE SizeOfKeys(_, _)
SizeOfKeys(es, ks) ==
    IF ks = {} THEN 0
    ELSE LET k == CHOOSE x \in ks : TRUE
         IN  SizeBytes(es[k]) + SizeOfKeys(es, ks \ {k})

\* C22: Invalidate(p) removes the entries whose key contains p, and no
\* other, and returns how many they are; the entries left are unchanged,
\* the total size has dropped by the sizes of the entries removed, and the
\* keys left are in the eviction list in the order they were in.
C22_InvalidateRemovesExactlyMatching ==
    [][\A p \in Patterns :
          Invalidate(p) =>
              LET gone == {k \in DOMAIN entries : Occurs(p, k)}
              IN  /\ DOMAIN entries' = DOMAIN entries \ gone
                  /\ last'.n = Cardinality(gone)
                  /\ \A k \in DOMAIN entries' : entries'[k] = entries[k]
                  /\ totalSize' = totalSize - SizeOfKeys(entries, gone)
                  /\ lruList' = SelectSeq(lruList, LAMBDA x : x \notin gone)
                  /\ recency' = SelectSeq(recency, LAMBDA x : x \notin gone)]_vars

\* Invalidate("/") has removed the entry under "/a" and has left the one
\* under "a", which does not contain the pattern.
C22_Witness ==
    /\ last.op = "Invalidate" /\ last.key = <<"/">> /\ last.n = 1
    /\ <<"/", "a">> \notin DOMAIN entries
    /\ <<"a">> \in DOMAIN entries

\* A goroutine is between taking the lock and releasing it.
InCritical(t) == thr[t].pc \notin {"idle", "called"}

\* The map, the eviction list and the size total agree: the list holds the
\* keys of the map, each once, and the total is the sum of the entry sizes.
Agree ==
    /\ DOMAIN entries = Range(lruList)
    /\ Len(lruList) = Cardinality(Range(lruList))
    /\ totalSize = SizeOfKeys(entries, DOMAIN entries)

\* C23: the store operations exclude one another: no two goroutines are
\* inside an operation at once; whenever no writer is inside one, the map,
\* the eviction list and the size total agree; and a Get that is about to
\* return has found its key, which is still stored, or has missed it, and
\* the key is not stored: an invalidation ran wholly before or wholly after.
C23_OperationsAtomic ==
    /\ \A t, u \in Threads : (t # u /\ InCritical(t)) => ~InCritical(u)
    /\ (\A t \in Writers : ~InCritical(t)) => Agree
    /\ (thr["handler"].op = "Get" /\ thr["handler"].pc = "unlock")
          => (thr["handler"].ok <=> thr["handler"].key \in DOMAIN entries)

\* C30: the CacheStats that Stats is about to return hold the entry count
\* and the total size of the store as it is, no writer is in the middle of
\* an operation on it, and the count is not above MaxEntries.
C30_StatsIsSnapshot ==
    thr["stats"].pc = "runlock"
        => /\ thr["stats"].Entries = Count(entries)
           /\ thr["stats"].SizeBytes = totalSize
           /\ \A t \in Writers : ~InCritical(t)
           /\ thr["stats"].Entries <= config.MaxEntries

\* Stats is about to return a count of MaxEntries and the size of that
\* many entries, while a Set that was called in the meantime waits for the
\* lock.
C30_Witness ==
    /\ thr["stats"].pc = "runlock"
    /\ thr["stats"].Entries = config.MaxEntries
    /\ thr["stats"].Entries > 0
    /\ thr["stats"].SizeBytes = thr["stats"].Entries * EntryOverhead
    /\ thr["handler"].op = "Set" /\ thr["handler"].pc = "called"

\* C29: when Set has stored an entry whose ExpiresAt the caller left unset,
\* the entry's ExpiresAt is its CreatedAt plus DefaultTTL, whether the
\* caller supplied the CreatedAt or not; an ExpiresAt the caller supplied is
\* stored as it is.
C29_ExpiryStampedFromCreatedAt ==
    [][\A key \in Keys, entry \in StampEntries :
          (Set(key, entry) /\ key \in DOMAIN entries')
              => IF entry.ExpiresAt = 0
                 THEN entries'[key].ExpiresAt
                          = entries'[key].CreatedAt + config.DefaultTTL
                 ELSE entries'[key].ExpiresAt = entry.ExpiresAt]_vars

\* C18: once Close has returned, the janitor has exited: it takes no tick
\* and no sweep starts or is still running.
C18_CloseWaitsForJanitor ==
    closing.call = "returned"
        => (janitor = "stopped" /\ ~ENABLED JanitorTick
            /\ ~ENABLED JanitorSweep)

\* Close has returned after a sweep that ran, on a tick taken before or
\* after the stop signal, while Close was waiting.
C18_Witness ==
    closing.call = "returned" /\ closing.swept /\ janitor = "stopped"

\* C20: a store whose Config is malformed (negative MaxEntries) is never
\* put to use: New reports the error, and no Set or Get runs on it.
C20_MalformedConfigSurfacesAtNew ==
    config.MaxEntries < 0
        => last.op \notin {"Set", "Get", "Set never returns"}

\* ------------------------------------------------------------------------
\* Properties of the key derivation
\* ------------------------------------------------------------------------

\* C10: all calls of GenerateKey on the same KeyParams return the same key.
C10_GenerateKeyDeterministic ==
    \A i, j \in 1..Len(keys) : keys[i] = keys[j]

\* C11: two KeyParams that differ in at least one field never get the same
\* key, i.e. never write the same bytes to the hash.
C11_KeyEncodingInjective ==
    (other # NoParams /\ Len(keys) = 2 /\ params # other)
        => keys[1] # keys[2]

\* ------------------------------------------------------------------------
\* Properties of the conditional-request evaluation
\* ------------------------------------------------------------------------

\* The values a comma-separated header text lists: each maximal stretch
\* without a comma, without the white space around it.
ListedValues(text) ==
    LET n == Len(text)
        Stretch(i, j) ==
            /\ i = 1 \/ text[i - 1] = ","
            /\ j = n \/ text[j + 1] = ","
            /\ \A k \in i..j : text[k] # ","
        Inner(i, j) == {k \in i..j : text[k] \notin {" ", "\t"}}
        Least(ks) == CHOOSE k \in ks : \A m \in ks : k <= m
        Most(ks) == CHOOSE k \in ks : \A m \in ks : k >= m
    IN  {IF Inner(b[1], b[2]) = {} THEN <<>>
         ELSE SubSeq(text, Least(Inner(b[1], b[2])), Most(Inner(b[1], b[2]))) :
            b \in {c \in (1..(n + 1)) \X (0..n) :
                      c[2] >= c[1] - 1 /\ Stretch(c[1], c[2])}}

\* The request's If-None-Match lists "*" or exactly the entry's ETag.
ListsETag ==
    \E v \in ListedValues(cond.req.IfNoneMatch) :
        v = <<"*">> \/ v = cond.entry.ETag

\* The request's If-Modified-Since is the text of a time.
SinceParses ==
    \E t \in 1..MaxStamp : cond.req.IfModifiedSince = <<Digit(t)>>

Since == CHOOSE t \in 1..MaxStamp : cond.req.IfModifiedSince = <<Digit(t)>>

\* C12: for a request carrying If-None-Match and an entry with a non-empty
\* ETag, MatchesConditions returns true exactly when the header lists "*" or
\* the entry's ETag (compared exactly, after trimming white space).
C12_ETagDecides ==
    (cond.done /\ cond.req.IfNoneMatch # <<>> /\ cond.entry.ETag # <<>>)
        => (cond.result <=> ListsETag)

\* C13: for a request without If-None-Match whose If-Modified-Since parses,
\* MatchesConditions returns true exactly when the entry's Last-Modified is
\* not after that time.
C13_ModifiedSinceDecides ==
    (cond.done /\ cond.req.IfNoneMatch = <<>> /\ SinceParses)
        => (cond.result <=> cond.entry.LastMod <= Since)

\* C13, for entries that have a Last-Modified: for a request without
\* If-None-Match whose If-Modified-Since parses and an entry whose
\* Last-Modified is set, MatchesConditions returns true exactly when the
\* entry's Last-Modified is not after that time.
C13_ModifiedSinceDecidesWhenSet ==
    (cond.done /\ cond.req.IfNoneMatch = <<>> /\ SinceParses
     /\ cond.entry.LastMod # 0)
        => (cond.result <=> cond.entry.LastMod <= Since)

\* A request whose If-Modified-Since equals the Last-Modified of the entry
\* has matched.
C13_Witness ==
    /\ cond.done /\ cond.req.IfNoneMatch = <<>> /\ SinceParses
    /\ cond.entry.LastMod = Since /\ cond.result

\* C14: when a request carries both If-None-Match and If-Modified-Since and
\* the entry has an ETag, the result is that of the ETag comparison alone.
C14_ETagTakesPriority ==
    (cond.done /\ cond.req.IfNoneMatch # <<>>
     /\ cond.req.IfModifiedSince # <<>> /\ cond.entry.ETag # <<>>)
        => (cond.result <=> ListsETag)

\* ------------------------------------------------------------------------
\* Properties of the request path
\* ------------------------------------------------------------------------

\* C15: a request with nocache=1 or X-Bypass-Cache: 1 is always rendered
\* fresh, and handling it leaves the entries, the eviction list, the total
\* size and the recency order of the store as they were.
C15_BypassNeverTouchesStore ==
    [][(http' # http
        /\ (http'.req.nocache = <<"1">> \/ http'.req.bypassHeader = <<"1">>))
          => /\ http'.phase = "idle" /\ http'.resp = "fresh"
             /\ entries' = entries /\ lruList' = lruList
             /\ totalSize' = totalSize /\ recency' = recency]_vars

\* A bypassing request of the static page has been rendered fresh while the
\* store held an unexpired entry under the key of that page.
C15_Witness ==
    /\ http.req # <<>>
    /\ http.req.nocache = <<"1">> \/ http.req.bypassHeader = <<"1">>
    /\ http.resp = "fresh"
    /\ BuildKeyFor(http.req.page, fs) \in DOMAIN entries
    /\ now <= entries[BuildKeyFor(http.req.page, fs)].ExpiresAt

\* C24: every entry the request path has put in the store has status code
\* 200, and a render that produced another status, or returned an error,
\* leaves the entries, the eviction list and the total size as they were.
C24_OnlyStatusOKStored ==
    [][/\ \A k \in DOMAIN entries' : entries'[k].StatusCode = 200
       /\ (http.phase = "rendering" /\ http'.resp \in {"status", "error"})
             => (entries' = entries /\ lruList' = lruList
                 /\ totalSize' = totalSize)]_vars

\* A render of one page has produced a status other than 200 and nothing
\* was stored for it, while the store holds the entry of the other page.
C24_Witness ==
    /\ http.phase = "idle" /\ http.resp = "status"
    /\ http.key # <<>>
    /\ http.key \notin DOMAIN entries
    /\ Count(entries) = 1

\* ------------------------------------------------------------------------
\* Properties of the invalidation watcher
\* ------------------------------------------------------------------------

\* C16: when a poll has handled the modification of a theme or template
\* file, the store is empty, however many entries it held.
C16_ThemeChangeClearsStore ==
    (last.op = "poll" /\ ThemeFile \in watcher.handled)
        => (Cardinality(DOMAIN entries) = 0 /\ lruList = <<>>
            /\ totalSize = 0)

\* A poll has handled a change of the theme file on a store that held two
\* entries, and the store is empty.
C16_Witness ==
    /\ last.op = "poll" /\ ThemeFile \in watcher.handled
    /\ last.preCount = 2
    /\ Cardinality(DOMAIN entries) = 0

\* C17: when a poll has handled the modification of the blog post file, and
\* of no other file, the entries under the keys derived for the post, the
\* blog index and the home page and those of the feed and sitemap
\* namespaces are gone, and the entry of the static page, if it was stored,
\* still is.
C17_BlogChangeInvalidatesDerivedKeys ==
    (last.op = "poll" /\ watcher.handled = {PostFile})
        => /\ DOMAIN entries
                 \cap {PostKey, IndexKey, HomeKey, RssKey, SitemapKey} = {}
           /\ PageKey \in Range(last.mid.lru) => PageKey \in DOMAIN entries

C25_ThemeChangeOnlyClears ==
    (last.op = "poll" /\ watcher.handled = {ThemeFile})
        => watcher.calls = <<"Clear">>

\* C25 (amended): when a poll has handled the modification of the theme
\* file, and of no other file, the calls made on the store are
\* InvalidateByFilePath for that path and then Clear, after which nothing
\* more is called, and the store is empty.
C25_ThemeChangeInvalidatesThenClears ==
    (last.op = "poll" /\ watcher.handled = {ThemeFile})
        => /\ watcher.calls = <<"InvalidateByFilePath", "Clear">>
           /\ Count(entries) = 0

\* A poll has handled a change of the theme file alone, on a store that
\* held an entry of the feed namespace, and has called InvalidateByFilePath
\* before Clear.
C25_Witness ==
    /\ last.op = "poll" /\ watcher.handled = {ThemeFile}
    /\ RssKey \in Range(last.mid.lru)
    /\ watcher.calls[1] = "InvalidateByFilePath"
    /\ Count(entries) = 0

\* C26: a poll records the modification time of every tracked file it sees
\* for the first time, at cold start or later, and handles no change for
\* it; a poll that finds no recorded file modified calls nothing on the
\* store and leaves its entries, eviction list and total size as they were.
C26_FirstSightingFiresNothing ==
    [][Poll =>
         LET firstSeen == {f \in DOMAIN fs :
                              /\ Tracked(f)
                              /\ f \notin DOMAIN watcher.fileTimes}
             unmodified == \A f \in DOMAIN watcher.fileTimes :
                              fs[f] <= watcher.fileTimes[f]
         IN  /\ \A f \in firstSeen :
                   /\ f \in DOMAIN watcher'.fileTimes
                   /\ watcher'.fileTimes[f] = fs[f]
                   /\ f \notin watcher'.handled
             /\ (firstSeen # {} /\ unmodified)
                   => /\ entries' = entries
                      /\ lruList' = lruList
                      /\ totalSize' = totalSize
                      /\ watcher'.calls = <<>>]_vars

\* A poll after the first one has seen the new blog post for the first
\* time and has recorded it, and the two entries of the store, the feed's
\* among them, are still there.
C26_Witness ==
    /\ last.op = "poll"
    /\ watcher.first = {NewFile}
    /\ NewFile \in DOMAIN watcher.fileTimes
    /\ watcher.handled = {}
    /\ RssKey \in DOMAIN entries
    /\ Count(entries) = 2

\* C27: for every file it has a record of, a poll that finds the file's
\* modification time newer than the recorded one records the new time and
\* handles the change of that path; one that finds it equal or older does
\* not handle it and leaves the record as it was, so that a modification is
\* handled once at most.
C27_NewerTimeFiresOnce ==
    [][Poll =>
         \A f \in DOMAIN watcher.fileTimes :
            IF fs[f] > watcher.fileTimes[f]
            THEN /\ f \in watcher'.handled
                 /\ watcher'.fileTimes[f] = fs[f]
            ELSE /\ f \notin watcher'.handled
                 /\ watcher'.fileTimes[f] = watcher.fileTimes[f]]_vars

\* A poll has handled the newer theme file and recorded its time, and has
\* left alone the blog post, whose time is older than the recorded one.
C27_Witness ==
    /\ last.op = "poll"
    /\ watcher.handled = {ThemeFile}
    /\ watcher.fileTimes[ThemeFile] = fs[ThemeFile]
    /\ watcher.fileTimes[PostFile] > fs[PostFile]

\* The watcher has a record of the file, and the file's time is above it.
NewerThanRecord(f) ==
    f \in DOMAIN watcher.fileTimes /\ fs[f] > watcher.fileTimes[f]

\* C28 (as claimed): while the ticker keeps firing, whenever a modification
\* has raised the time of a file the watcher has a record of, a poll
\* eventually handles the change of that file.
C28_RaisedTimeEventuallyHandled ==
    \A f \in {PostFile, ThemeFile} :
        (f \in watcher.raised) ~> (last.op = "poll" /\ f \in watcher.handled)

\* C28 (amended): while the ticker keeps firing, whenever the time of a file
\* is above the one the watcher has recorded for it, a poll eventually
\* handles the change of that file, unless the time is set back first.
C28_NewerThanRecordEventuallyHandled ==
    \A f \in {PostFile, ThemeFile} :
        NewerThanRecord(f)
            ~> \/ last.op = "poll" /\ f \in watcher.handled
               \/ ~NewerThanRecord(f)

\* A poll has handled the blog post, whose time a modification had raised
\* above the recorded one, and has brought the record up to it.
C28_Witness ==
    /\ last.op = "poll"
    /\ watcher.handled = {PostFile}
    /\ watcher.raised = {}
    /\ fs[PostFile] = MaxModTime
    /\ watcher.fileTimes[PostFile] = fs[PostFile]

\* The request carries no validator the entry could be compared with: neither
\* header, or an If-Modified-Since alone that does not parse.
NoUsableValidator(r) ==
    /\ r.IfNoneMatch = <<>>
    /\ r.IfModifiedSince = <<>> \/ ~ParseTime(r.IfModifiedSince).ok

\* C32: HandleConditionalRequest returns false and writes no 304, and
\* nothing else, when the request carries neither If-None-Match nor
\* If-Modified-Since, when its only validator is an If-Modified-Since that
\* does not parse, and when the entry has neither an ETag nor a LastMod.
C32_NoMatchWithoutValidators ==
    (cond.done /\ (\/ NoUsableValidator(cond.req)
                   \/ ~SupportsConditionalRequests(cond.entry)))
        => /\ ~cond.result.sent
           /\ cond.result.w = NothingWritten

\* HandleConditionalRequest has returned false for an entry with an ETag and
\* a LastMod, on a request whose only validator was an If-Modified-Since
\* that does not parse.
C32_Witness ==
    /\ cond.done
    /\ cond.entry.ETag # <<>> /\ cond.entry.LastMod # 0
    /\ cond.req.IfNoneMatch = <<>>
    /\ cond.req.IfModifiedSince = <<"x">>
    /\ ~cond.result.sent

\* A step of renderWithCache that found its key in the store, with an entry
\* that has not expired, and answered from it.
AnswersHit ==
    /\ http.phase = "idle"
    /\ http'.phase = "idle" /\ http'.resp \in {"not modified", "cached"}

\* C31: renderWithCache answers a hit whose validators match with status
\* 304, no body and no other header than the ETag and Last-Modified of the
\* entry, and leaves the entries and the total size of the store as they
\* were; it answers a hit whose validators do not match with status 200 and
\* the body of the entry.
C31_MatchingHitIsNotModified ==
    [][AnswersHit
          => LET e == entries[http'.key]
             IN  /\ ~IsExpired(e, now)
                 /\ IF MatchesConditions(Validators(e), http'.req)
                    THEN /\ http'.w.status = 304
                         /\ http'.w.body = <<>>
                         /\ http'.w.headers = {"ETag", "Last-Modified"}
                         /\ entries' = entries
                         /\ totalSize' = totalSize
                         /\ Range(lruList') = Range(lruList)
                    ELSE /\ http'.w.status = 200
                         /\ http'.w.body = <<e.Body>>]_vars

\* A request that listed the ETag of the stored page in If-None-Match has
\* been answered 304, and the page is still stored.
C31_Witness ==
    /\ http.phase = "idle" /\ http.resp = "not modified"
    /\ http.req.IfNoneMatch # <<>>
    /\ http.req.IfModifiedSince = <<>>
    /\ http.w.status = 304
    /\ http.key \in DOMAIN entries

\* C33: a poll skips the paths the file system refuses and what lies under
\* them, and no more: every other tracked file, under the same root and
\* under the other roots, is examined in the same poll (recorded when seen
\* for the first time, handled exactly when newer than its record), a
\* skipped file is not handled and keeps its record, and the loop is back
\* in its select, where the next tick starts the next poll.
C33_UnreadablePathsAreSkipped ==
    [][Poll =>
         /\ \A f \in DOMAIN fs :
               IF Under(f, denied)
               THEN /\ f \notin watcher'.handled
                    /\ f \in DOMAIN watcher.fileTimes
                          => watcher'.fileTimes[f] = watcher.fileTimes[f]
                    /\ f \notin DOMAIN watcher.fileTimes
                          => f \notin DOMAIN watcher'.fileTimes
               ELSE /\ f \in DOMAIN watcher'.fileTimes
                    /\ watcher'.fileTimes[f] = IF f \in DOMAIN watcher.fileTimes
                                                  /\ watcher.fileTimes[f] >= fs[f]
                                               THEN watcher.fileTimes[f]
                                               ELSE fs[f]
                    /\ f \in watcher'.handled
                          <=> /\ f \in DOMAIN watcher.fileTimes
                              /\ fs[f] > watcher.fileTimes[f]
         /\ watcher'.loop = "select"]_vars

\* A poll has skipped the modified blog post, whose directory could not be
\* listed, and has handled the static page under the same root and the
\* theme file under the other root.
C33_Witness ==
    /\ last.op = "poll"
    /\ denied = {BlogDir}
    /\ watcher.handled = {PageFile, ThemeFile}
    /\ PostFile \in DOMAIN watcher.fileTimes
    /\ fs[PostFile] > watcher.fileTimes[PostFile]

\* C34: whenever Stats can read it, the total size is the sum of SizeBytes
\* over the entries of the store, and 0 when the store is empty, also after
\* SetCacheHeaders has filled in the ETag of an entry on the request path.
C34_TotalSizeIsSumOfEntries ==
    ~hung => totalSize = SizeOfKeys(entries, DOMAIN entries)

\* C35: every call of Set returns: no Set is left spinning in a loop of
\* evictIfNecessary with the store lock held, whatever the Config and the
\* key.
C35_SetTerminates == ~hung

\* C37: when Set(k, e) has returned, k is stored exactly when MaxEntries is
\* at least 1 and the size of e is at most MaxSizeBytes; and when the size
\* of e is above MaxSizeBytes, the store is empty and its total size is 0.
C37_StoredIffItFits ==
    last.op = "Set" =>
        /\ last.key \in DOMAIN entries
               <=> (config.MaxEntries >= 1 /\ last.size <= config.MaxSizeBytes)
        /\ last.size > config.MaxSizeBytes
               => (Count(entries) = 0 /\ totalSize = 0)

\* C38: in a Set that has returned, every key removeOldest returned from an
\* eviction list that held keys is a key, not the empty string, and the
\* eviction step that got it has removed the entry of that key from the
\* map: the keys unlinked are the keys evicted, in the same order.
C38_RemoveOldestNamesTheEvicted ==
    last.op = "Set" =>
        /\ \A i \in 1..Len(last.popped) : last.popped[i] # EmptyKey
        /\ last.popped = last.evC \o last.evS

\* The key of the blog post or static page when its content file has the
\* modification time m.
ContentKeyAt(page, m) ==
    BuildKeyFor(page, (ContentFile(page) :> m) @@ SiteFiles)

\* C36: the body stored under the key of a blog post or static page was
\* rendered from the version of the content file whose modification time
\* the key was derived from, and never from an older one.
C36_StoredBodyMatchesKeyVersion ==
    \A page \in {"post", "page"} : \A m \in 1..MaxModTime :
        ContentKeyAt(page, m) \in DOMAIN entries
            => entries[ContentKeyAt(page, m)].from = m

====
